---------------------------- MODULE Spec2Model ----------------------------
(***************************************************************************)
(* White-balance core of librawspeed: gain estimators, gain application    *)
(* and the colour-temperature conversions, as state machines over inputs   *)
(* drawn from bounded sets.                                                *)
(*                                                                         *)
(* Numbers.  The code computes in float/double.  The model computes in     *)
(* exact rational arithmetic: a number is a pair <<n, d>> with d > 0 and   *)
(* gcd(n, d) = 1.  Rounding of the binary formats is not modelled; the     *)
(* IEEE special values that a division by zero produces are (see Div754).  *)
(***************************************************************************)
EXTENDS Integers, Sequences, FiniteSets, TLC

VARIABLES
    image,      \* the cv::Mat handed to an estimator: [rows, cols, pix]
    cfg,        \* the AlgorithmConfig handed to an estimator
    gop,        \* the estimator that ran last ("none" before any call)
    garg,       \* its extra argument (computeSimpleWB's p, the balanced image)
    gstatus,    \* "idle", "ok" (returned), "threw" (CV_Assert), "hung" (no return)
    gains,      \* the WhiteBalanceGains it returned
    applied,    \* the gain triples applied so far, in order
    out,        \* the buffer returned by the last gain application
    aimpl,      \* which gain application is in use: "wb" or "tool"
    xy,         \* a chromaticity handed to the colour-temperature functions
    kelvin,     \* a temperature handed to the colour-temperature functions
    tfn,        \* the colour-temperature function that ran last
    tres        \* what it returned

vars == <<image, cfg, gop, garg, gstatus, gains, applied, out, aimpl,
          xy, kelvin, tfn, tres>>

gainVars == <<image, cfg, gop, garg, gstatus, gains, applied, out, aimpl>>
tempVars == <<xy, kelvin, tfn, tres>>

None == "none"

-----------------------------------------------------------------------------
(* Exact rational arithmetic standing for the code's double arithmetic.     *)

Abs(a) == IF a < 0 THEN -a ELSE a

RECURSIVE GCD(_, _)
GCD(a, b) == IF b = 0 THEN a ELSE GCD(b, a % b)

Rat(n, d) ==
    LET g == GCD(Abs(n), Abs(d))
        s == IF d < 0 THEN -1 ELSE 1
    IN  <<s * (n \div g), s * (d \div g)>>

RInt(k) == <<k, 1>>

RNeg(a) == <<-a[1], a[2]>>

\* pairs of numbers; applying a function to a pair settles both numbers
\* before the function's body is entered
RatPairs == (Int \X Int) \X (Int \X Int)

RAddOf ==
    [p \in RatPairs |->
        LET a == p[1]
            b == p[2]
            g == GCD(a[2], b[2])
        IN  Rat(a[1] * (b[2] \div g) + b[1] * (a[2] \div g),
                (a[2] \div g) * b[2])]

RAdd(a, b) == RAddOf[<<a, b>>]

RSub(a, b) == RAdd(a, RNeg(b))

RMulOf ==
    [p \in RatPairs |->
        LET a == p[1]
            b == p[2]
            g1 == GCD(Abs(a[1]), b[2])
            g2 == GCD(Abs(b[1]), a[2])
        IN  Rat((a[1] \div g1) * (b[1] \div g2),
                (a[2] \div g2) * (b[2] \div g1))]

RMul(a, b) == RMulOf[<<a, b>>]

RInv(a) == IF a[1] > 0 THEN <<a[2], a[1]>> ELSE <<-a[2], -a[1]>>

RDiv(a, b) == RMul(a, RInv(b))

\* n1/d1 < n2/d2 for n1, n2 >= 0 and d1, d2 > 0, by comparing the integer
\* parts and then the reciprocals of the fractional parts.
RECURSIVE PosLess(_, _, _, _)
PosLess(n1, d1, n2, d2) ==
    LET q1 == n1 \div d1
        q2 == n2 \div d2
        r1 == n1 % d1
        r2 == n2 % d2
    IN  IF q1 # q2 THEN q1 < q2
        ELSE IF r2 = 0 THEN FALSE
        ELSE IF r1 = 0 THEN TRUE
        ELSE PosLess(d2, r2, d1, r1)

RLtOf ==
    [p \in RatPairs |->
        LET a == p[1]
            b == p[2]
        IN  IF a[1] < 0
            THEN IF b[1] >= 0 THEN TRUE
                 ELSE PosLess(-b[1], b[2], -a[1], a[2])
            ELSE IF b[1] < 0 THEN FALSE
                 ELSE PosLess(a[1], a[2], b[1], b[2])]

RLt(a, b) == RLtOf[<<a, b>>]

RGt(a, b) == RLt(b, a)
RLe(a, b) == ~RLt(b, a)
RGe(a, b) == ~RLt(a, b)

\* std::max(a, b) and std::min(a, b)
RMax(a, b) == IF RLt(a, b) THEN b ELSE a
RMin(a, b) == IF RLt(b, a) THEN b ELSE a

RAbs(a) == <<Abs(a[1]), a[2]>>

\* static_cast<int> of a non-negative value
RTrunc(a) == a[1] \div a[2]

\* the sum of s[lo..hi], by halves
RECURSIVE RSumRange(_, _, _)
RSumRange(s, lo, hi) ==
    IF lo > hi THEN RInt(0)
    ELSE IF lo = hi THEN s[lo]
    ELSE LET mid == (lo + hi) \div 2
         IN  RAdd(RSumRange(s, lo, mid), RSumRange(s, mid + 1, hi))

RSum(s) == RSumRange(s, 1, Len(s))

\* values[idx] after std::sort(values.begin(), values.end()), for
\* 0 <= idx < values.size(): the value with at most idx values below it and
\* more than idx values not above it
SortedAt(values, idx) ==
    LET n == Len(values)
        i == CHOOSE i \in 1..n :
                 /\ Cardinality({j \in 1..n : RLt(values[j], values[i])}) <= idx
                 /\ Cardinality({j \in 1..n : RLe(values[j], values[i])}) > idx
    IN  values[i]

\* a decimal literal of the source, k / 10^e
Hundredth(k) == Rat(k, 100)
Micro == Rat(1, 1000000)      \* 1e-6
Nano == Rat(1, 1000000000)    \* 1e-9

-----------------------------------------------------------------------------
(* WhiteBalanceGains (wb_gains.h)                                           *)

Gains(r, g, b) == [red_gain |-> r, green_gain |-> g, blue_gain |-> b]

\* WhiteBalanceGains(double r = 1.0, double g = 1.0, double b = 1.0)
DefaultGains == Gains(RInt(1), RInt(1), RInt(1))

normalizeToGreen(g) ==
    IF RGt(g.green_gain, Nano)
    THEN Gains(RDiv(g.red_gain, g.green_gain), RInt(1),
               RDiv(g.blue_gain, g.green_gain))
    ELSE g

clampGains(g, min_gain, max_gain) ==
    Gains(RMax(min_gain, RMin(max_gain, g.red_gain)),
          RMax(min_gain, RMin(max_gain, g.green_gain)),
          RMax(min_gain, RMin(max_gain, g.blue_gain)))

\* the band every estimator of wb::algorithms passes to clampGains
BandMin == Rat(2, 10)
BandMax == RInt(5)

-----------------------------------------------------------------------------
(* Images: a cv::Mat of type CV_32FC3, row-major, channel order B, G, R.    *)

Mat(r, c, p) == [rows |-> r, cols |-> c, pix |-> p]

NPix(img) == img.rows * img.cols

\* cv::split(image, channels): channels[c] as a flat sequence, c in 1..3
Channel(img, c) == [i \in 1..NPix(img) |-> img.pix[i][c]]

MaxChannel(px) == RMax(RMax(px[1], px[2]), px[3])
MinChannel(px) == RMin(RMin(px[1], px[2]), px[3])

\* the number of set entries of a mask
CountSet(mask) == Cardinality({i \in DOMAIN mask : mask[i]})

\* the per-channel mean of the triples of s whose mask entry is set, 0 when
\* none is
MeanOfSet(s, mask) ==
    LET n == CountSet(mask)
    IN  [c \in 1..3 |->
            IF n = 0 THEN RInt(0)
            ELSE RDiv(RSum([i \in 1..Len(s) |->
                               IF mask[i] THEN s[i][c] ELSE RInt(0)]),
                      RInt(n))]

\* cv::mean(image, mask)
MeanMasked(img, mask) == MeanOfSet(img.pix, mask)

AllSet(img) == [i \in 1..NPix(img) |-> TRUE]

-----------------------------------------------------------------------------
(* AlgorithmConfig and the estimators of wb::algorithms (wb_algorithms.h)   *)

DefaultConfig ==
    [highlight_threshold |-> Hundredth(98),
     shadow_threshold |-> Hundredth(2),
     white_percentile |-> Hundredth(95),
     white_saturation_max |-> Hundredth(5),
     patch_size |-> 32,
     reflectance_threshold |-> Hundredth(90)]

\* saturation = range / valid_max, valid_max being max_channel with the
\* entries below 1e-6 set to 1.0
GrayWorldSaturation(px) ==
    LET mx == MaxChannel(px)
        valid_max == IF RLt(mx, Micro) THEN RInt(1) ELSE mx
    IN  RDiv(RSub(mx, MinChannel(px)), valid_max)

\* the validity mask of computeGrayWorld
GrayWorldMask(img, config) ==
    [i \in 1..NPix(img) |->
        /\ RLt(MaxChannel(img.pix[i]), config.highlight_threshold)
        /\ RGt(MinChannel(img.pix[i]), config.shadow_threshold)
        /\ RLt(GrayWorldSaturation(img.pix[i]), Hundredth(80))]

\* computeGrayWorld with the two ratios upside down
computeGrayWorldInverted(img, config) ==
    LET mean_values == MeanMasked(img, GrayWorldMask(img, config))
        b_mean == RMax(Micro, mean_values[1])
        g_mean == RMax(Micro, mean_values[2])
        r_mean == RMax(Micro, mean_values[3])
    IN  clampGains(Gains(RDiv(r_mean, g_mean), RInt(1), RDiv(b_mean, g_mean)),
                   BandMin, BandMax)

computeGrayWorld(img, config) ==
    LET mean_values == MeanMasked(img, GrayWorldMask(img, config))
        b_mean == RMax(Micro, mean_values[1])
        g_mean == RMax(Micro, mean_values[2])
        r_mean == RMax(Micro, mean_values[3])
    IN  clampGains(Gains(RDiv(g_mean, r_mean), RInt(1), RDiv(g_mean, b_mean)),
                   BandMin, BandMax)

\* values[idx] of a std::vector of n elements: the element when the index is
\* inside, and whatever the read beyond the end yields (oob) when it is not
SortedRead(values, idx, oob) ==
    IF idx >= 0 /\ idx < Len(values) THEN SortedAt(values, idx) ELSE oob

Luminance(px) == RDiv(RAdd(RAdd(px[1], px[2]), px[3]), RInt(3))

WhitePercentileIdx(n, config) == RTrunc(RMul(RInt(n), config.white_percentile))

WhitePointMask(img, config, oob) ==
    LET lum_values == [i \in 1..NPix(img) |-> Luminance(img.pix[i])]
        lum_threshold ==
            SortedRead(lum_values, WhitePercentileIdx(NPix(img), config), oob)
    IN  [i \in 1..NPix(img) |->
            /\ RGe(Luminance(img.pix[i]), lum_threshold)
            /\ RLt(RDiv(RSub(MaxChannel(img.pix[i]), MinChannel(img.pix[i])),
                        RAdd(MaxChannel(img.pix[i]), Micro)),
                   config.white_saturation_max)]

\* gains that map the colour avg (B, G, R) to the neutral of its own mean,
\* each channel floored at 1e-6, then normalizeToGreen and clampGains
NeutralGains(b, g, r, target) ==
    clampGains(normalizeToGreen(
                   Gains(RDiv(target, r), RDiv(target, g), RDiv(target, b))),
               BandMin, BandMax)

computeWhitePoint(img, config, oob) ==
    LET white_mean == MeanMasked(img, WhitePointMask(img, config, oob))
        b_white == RMax(Micro, white_mean[1])
        g_white == RMax(Micro, white_mean[2])
        r_white == RMax(Micro, white_mean[3])
        target == RDiv(RAdd(RAdd(r_white, g_white), b_white), RInt(3))
    IN  NeutralGains(b_white, g_white, r_white, target)

LowIdx(n, p) == RTrunc(RMul(RInt(n), RDiv(p, RInt(100))))
HighIdx(n, p) == RTrunc(RMul(RInt(n), RSub(RInt(1), RDiv(p, RInt(100)))))

\* the provisional gain of one channel of computeSimpleWB
SimpleScale(values, p, oob) ==
    LET low_val == SortedRead(values, LowIdx(Len(values), p), oob)
        high_val == SortedRead(values, HighIdx(Len(values), p), oob)
    IN  RDiv(RInt(1), RAdd(RSub(high_val, low_val), Micro))

\* CV_Assert(p >= 0.0f && p <= 100.0f)
SimpleWBAccepts(p) == RGe(p, RInt(0)) /\ RLe(p, RInt(100))

computeSimpleWB(img, p, oob) ==
    clampGains(normalizeToGreen(
                   Gains(SimpleScale(Channel(img, 3), p, oob),
                         SimpleScale(Channel(img, 2), p, oob),
                         SimpleScale(Channel(img, 1), p, oob))),
               BandMin, BandMax)

\* for (y = 0; y < rows - patch_size; y += patch_size / 2): the values the
\* loop variable takes, from `from` on, for a positive stride
RECURSIVE LoopValues(_, _, _)
LoopValues(from, limit, stride) ==
    IF from < limit THEN <<from>> \o LoopValues(from + stride, limit, stride)
    ELSE <<>>

\* the outer loop never ends: its stride patch_size / 2 is 0 and it is entered
PatchScanHangs(img, config) ==
    config.patch_size \div 2 = 0 /\ 0 < img.rows - config.patch_size

\* the origins (x, y) of the patches the two loops visit, in visiting order
ScannedOrigins(img, config) ==
    LET ps == config.patch_size
        ys == LoopValues(0, img.rows - ps, ps \div 2)
        xs == LoopValues(0, img.cols - ps, ps \div 2)
    IN  IF ys = <<>> THEN <<>>
        ELSE [k \in 1..(Len(ys) * Len(xs)) |->
                 <<xs[((k - 1) % Len(xs)) + 1], ys[((k - 1) \div Len(xs)) + 1]>>]

Min2(a, b) == IF a < b THEN a ELSE b

\* cv::mean(image(roi)) for roi(x, y, min(patch_size, cols - x),
\* min(patch_size, rows - y))
PatchMean(img, config, o) ==
    LET w == Min2(config.patch_size, img.cols - o[1])
        h == Min2(config.patch_size, img.rows - o[2])
        at == [k \in 1..(w * h) |->
                  img.pix[(o[2] + (k - 1) \div w) * img.cols
                          + o[1] + ((k - 1) % w) + 1]]
    IN  [c \in 1..3 |-> RDiv(RSum([k \in 1..(w * h) |-> at[k][c]]), RInt(w * h))]

MeanLuminance(m) == RDiv(RAdd(RAdd(m[1], m[2]), m[3]), RInt(3))

\* the mean of every scanned patch, in visiting order
PatchMeans(img, config) ==
    LET origins == ScannedOrigins(img, config)
    IN  [k \in 1..Len(origins) |-> PatchMean(img, config, origins[k])]

\* which scanned patches are pushed onto bright_patches
BrightPatches(img, config) ==
    LET means == PatchMeans(img, config)
    IN  [k \in 1..Len(means) |->
            RGt(MeanLuminance(means[k]), config.reflectance_threshold)]

PerfectReflectorFallback(img, config) == computeGrayWorld(img, config)

\* defined when the patch scan ends (~PatchScanHangs)
computePerfectReflector(img, config) ==
    LET bright_patches == BrightPatches(img, config)
        n == CountSet(bright_patches)
        avg_bright == MeanOfSet(PatchMeans(img, config), bright_patches)
        target == RDiv(RAdd(RAdd(avg_bright[1], avg_bright[2]), avg_bright[3]),
                       RInt(3))
    IN  IF n = 0 THEN PerfectReflectorFallback(img, config)
        ELSE NeutralGains(RMax(Micro, avg_bright[1]), RMax(Micro, avg_bright[2]),
                          RMax(Micro, avg_bright[3]), target)

Blend(gw, wp, pr) ==
    RAdd(RAdd(RMul(gw, Rat(4, 10)), RMul(wp, Rat(3, 10))), RMul(pr, Rat(3, 10)))

\* defined when the patch scan ends (~PatchScanHangs)
computeCombined(img, config, oob) ==
    LET gray_world == computeGrayWorld(img, config)
        white_point == computeWhitePoint(img, config, oob)
        perfect_reflector == computePerfectReflector(img, config)
    IN  clampGains(Gains(Blend(gray_world.red_gain, white_point.red_gain,
                               perfect_reflector.red_gain),
                         RInt(1),
                         Blend(gray_world.blue_gain, white_point.blue_gain,
                               perfect_reflector.blue_gain)),
                   BandMin, BandMax)

-----------------------------------------------------------------------------
(* The estimators outside wb::algorithms                                    *)

\* computeGainsFromBalanced (wb_algorithms_opencv.h)
computeGainsFromBalanced(original, balanced) ==
    LET orig_mean == MeanMasked(original, AllSet(original))
        balanced_mean == MeanMasked(balanced, AllSet(balanced))
        orig == [c \in 1..3 |-> RMax(Micro, orig_mean[c])]
        bal == [c \in 1..3 |-> RMax(Micro, balanced_mean[c])]
    IN  clampGains(normalizeToGreen(
                       Gains(RDiv(bal[3], orig[3]), RDiv(bal[2], orig[2]),
                             RDiv(bal[1], orig[1]))),
                   BandMin, BandMax)

\* the mask of computeGrayWorldGains (compute_white_balance.cpp)
ToolGrayWorldMask(img) ==
    [i \in 1..NPix(img) |->
        /\ RLt(MaxChannel(img.pix[i]), Hundredth(98))
        /\ RGt(MinChannel(img.pix[i]), Hundredth(2))]

computeGrayWorldGains(linearRgb) ==
    LET meanAll == MeanMasked(linearRgb, ToolGrayWorldMask(linearRgb))
        rMean == RMax(Micro, meanAll[3])
        gMean == RMax(Micro, meanAll[2])
        bMean == RMax(Micro, meanAll[1])
    IN  Gains(RDiv(gMean, rMean), RInt(1), RDiv(gMean, bMean))

-----------------------------------------------------------------------------
(* Gain application                                                         *)

\* applyGains with every product saturated to [0, 1]
applyGainsSaturating(img, g) ==
    Mat(img.rows, img.cols,
        [i \in 1..NPix(img) |->
            <<RMax(RInt(0), RMin(RInt(1), RMul(img.pix[i][1], g.blue_gain))),
              RMax(RInt(0), RMin(RInt(1), RMul(img.pix[i][2], g.green_gain))),
              RMax(RInt(0), RMin(RInt(1), RMul(img.pix[i][3], g.red_gain)))>>])

\* wb::applyGains (wb_gains.h): channels B, G, R times blue, green, red gain
applyGains(img, g) ==
    Mat(img.rows, img.cols,
        [i \in 1..NPix(img) |->
            <<RMul(img.pix[i][1], g.blue_gain),
              RMul(img.pix[i][2], g.green_gain),
              RMul(img.pix[i][3], g.red_gain)>>])

\* applyWhiteBalanceGains (compute_white_balance.cpp)
applyWhiteBalanceGains(linearRgb, g) ==
    Mat(linearRgb.rows, linearRgb.cols,
        [i \in 1..NPix(linearRgb) |->
            <<RMul(linearRgb.pix[i][1], g.blue_gain),
              RMul(linearRgb.pix[i][2], g.green_gain),
              RMul(linearRgb.pix[i][3], g.red_gain)>>])

-----------------------------------------------------------------------------
(* Inputs of the gain estimators                                            *)

MaxSide == 3        \* images have 1..MaxSide rows and 1..MaxSide columns
PatchSizes == {1, 2}   \* the patch_size values tried

\* pixel colours (B, G, R), in hundredths
Colour(b, g, r) == <<Hundredth(b), Hundredth(g), Hundredth(r)>>
Gray == Colour(50, 50, 50)
Cast == Colour(60, 40, 50)         \* (R, G, B) = (0.5, 0.4, 0.6)
White == Colour(95, 95, 95)        \* luminance above reflectance_threshold
Black == Colour(0, 0, 0)
HighlightEdge == Colour(98, 50, 50)   \* max channel = highlight_threshold
ShadowEdge == Colour(8, 5, 2)         \* min channel = shadow_threshold
SaturationEdge == Colour(50, 10, 10)  \* saturation = 0.8
WeakRed == Colour(90, 90, 3)          \* green / red = 30

Colours ==
    {Gray, Cast, White, Black, HighlightEdge, ShadowEdge, SaturationEdge, WeakRed}

\* an image of one colour with one pixel of another (or the same) colour;
\* the inputs put that pixel first or last
SpotImage(r, c, bg, fg, k) ==
    Mat(r, c, [i \in 1..(r * c) |-> IF i = k THEN fg ELSE bg])

Configs == {[DefaultConfig EXCEPT !.patch_size = ps] : ps \in PatchSizes}

\* the p handed to computeSimpleWB (a percentage; the default is 0.5)
Percentiles ==
    {RInt(-1), RInt(0), Rat(1, 2), RInt(25), RInt(50), RInt(75), RInt(100),
     RInt(101)}

\* what a read beyond the end of a std::vector<float> may yield
OobValues == {RInt(-1), RInt(0), Hundredth(50), RInt(2)}

\* computeSimpleWB reads values[n] of an n-element vector
SimpleWBReadsBeyond(n, p) == LowIdx(n, p) >= n \/ HighIdx(n, p) >= n

WhitePointReadsBeyond(n, config) == WhitePercentileIdx(n, config) >= n

\* the colours of the image the OpenCV balancer hands to
\* computeGainsFromBalanced
BalancedColours == {Gray, White, Black, WeakRed}

TempIdle == xy = None /\ kelvin = None /\ tfn = None /\ tres = None

InitGains ==
    /\ \E r \in 1..MaxSide, c \in 1..MaxSide, bg \in Colours, fg \in Colours :
         \E k \in {1, r * c} : image = SpotImage(r, c, bg, fg, k)
    /\ cfg \in Configs
    /\ gop = None /\ garg = None /\ gstatus = "idle" /\ gains = None
    /\ applied = <<>> /\ out = None
    /\ aimpl = None
    /\ TempIdle

Returned(op, arg, g) ==
    /\ gop' = op /\ garg' = arg /\ gstatus' = "ok" /\ gains' = g
    /\ UNCHANGED <<image, cfg, applied, out, aimpl>>
    /\ UNCHANGED tempVars

NoReturn(op, arg, how) ==
    /\ gop' = op /\ garg' = arg /\ gstatus' = how /\ gains' = None
    /\ UNCHANGED <<image, cfg, applied, out, aimpl>>
    /\ UNCHANGED tempVars

GrayWorld ==
    /\ gstatus = "idle"
    /\ Returned("computeGrayWorld", None, computeGrayWorld(image, cfg))

WhitePoint ==
    /\ gstatus = "idle"
    /\ \E oob \in (IF WhitePointReadsBeyond(NPix(image), cfg)
                   THEN OobValues ELSE {None}) :
         Returned("computeWhitePoint", [oob |-> oob],
                  computeWhitePoint(image, cfg, oob))

SimpleWB ==
    /\ gstatus = "idle"
    /\ \E p \in Percentiles :
         IF ~SimpleWBAccepts(p)
         THEN NoReturn("computeSimpleWB", [p |-> p, oob |-> None], "threw")
         ELSE \E oob \in (IF SimpleWBReadsBeyond(NPix(image), p)
                          THEN OobValues ELSE {None}) :
                Returned("computeSimpleWB", [p |-> p, oob |-> oob],
                         computeSimpleWB(image, p, oob))

PerfectReflector ==
    /\ gstatus = "idle"
    /\ IF PatchScanHangs(image, cfg)
       THEN NoReturn("computePerfectReflector", None, "hung")
       ELSE Returned("computePerfectReflector", None,
                     computePerfectReflector(image, cfg))

Combined ==
    /\ gstatus = "idle"
    /\ IF PatchScanHangs(image, cfg)
       THEN NoReturn("computeCombined", None, "hung")
       ELSE \E oob \in (IF WhitePointReadsBeyond(NPix(image), cfg)
                        THEN OobValues ELSE {None}) :
              Returned("computeCombined", [oob |-> oob],
                       computeCombined(image, cfg, oob))

GainsFromBalanced ==
    /\ gstatus = "idle"
    /\ \E col \in BalancedColours :
         LET balanced == SpotImage(image.rows, image.cols, col, col, 1)
         IN  Returned("computeGainsFromBalanced", [balanced |-> balanced],
                      computeGainsFromBalanced(image, balanced))

GrayWorldTool ==
    /\ gstatus = "idle"
    /\ Returned("computeGrayWorldGains", None, computeGrayWorldGains(image))

\* the application in use
Apply(impl, img, g) ==
    IF impl = "wb" THEN applyGains(img, g) ELSE applyWhiteBalanceGains(img, g)

\* balanced = applyWhiteBalanceGains(linearF32, gw): the estimated gains
\* applied to the image they were estimated from, by the application of the
\* estimator's own library
ApplyEstimated ==
    /\ gstatus = "ok" /\ applied = <<>>
    /\ aimpl' = IF gop = "computeGrayWorldGains" THEN "tool" ELSE "wb"
    /\ out' = Apply(aimpl', image, gains)
    /\ applied' = <<gains>>
    /\ UNCHANGED <<image, cfg, gop, garg, gstatus, gains>>
    /\ UNCHANGED tempVars

NextGains ==
    \/ GrayWorld
    \/ WhitePoint
    \/ SimpleWB
    \/ PerfectReflector
    \/ Combined
    \/ GainsFromBalanced
    \/ GrayWorldTool
    \/ ApplyEstimated

SpecGains == InitGains /\ [][NextGains]_vars

-----------------------------------------------------------------------------
(* Properties of the gain estimators, checked under SpecGains               *)

WbAlgorithms ==
    {"computeGrayWorld", "computeWhitePoint", "computeSimpleWB",
     "computePerfectReflector", "computeCombined"}

InBand(v) == RGe(v, BandMin) /\ RLe(v, BandMax)

\* C1: every triple returned by an estimator of wb::algorithms has
\* green_gain equal to 1.0 exactly.
C1_GreenGainIsOne ==
    (gstatus = "ok" /\ gop \in WbAlgorithms) => gains.green_gain = RInt(1)

\* C2: every triple returned by any estimator (wb::algorithms,
\* computeGainsFromBalanced, computeGrayWorldGains) has its three gains
\* inside [0.2, 5.0].
C2_GainsInBand ==
    gstatus = "ok" =>
        /\ InBand(gains.red_gain)
        /\ InBand(gains.green_gain)
        /\ InBand(gains.blue_gain)

UniformOf(img, col) == \A i \in 1..NPix(img) : img.pix[i] = col

\* C4: when the validity mask is non-empty and green/red, green/blue of the
\* masked means lie in [0.2, 5.0], the gains of computeGrayWorld applied by
\* applyGains make the three masked channel means equal; the uniform image
\* (R, G, B) = (0.5, 0.4, 0.6) gets the gains (0.4/0.5, 1, 0.4/0.6).
C4_GrayWorldNeutral ==
    (gop = "computeGrayWorld" /\ applied # <<>> /\ aimpl = "wb") =>
        LET mask == GrayWorldMask(image, cfg)
            before == MeanMasked(image, mask)
            after == MeanMasked(out, mask)
        IN  /\ ( /\ CountSet(mask) > 0
                 /\ InBand(RDiv(before[2], before[3]))
                 /\ InBand(RDiv(before[2], before[1])) )
               => (after[1] = after[2] /\ after[3] = after[2])
            /\ UniformOf(image, Cast)
               => gains = Gains(Rat(4, 5), RInt(1), Rat(2, 3))

C4_Witness ==
    /\ gop = "computeGrayWorld" /\ applied # <<>> /\ aimpl = "wb"
    /\ UniformOf(image, Cast)
    /\ NPix(image) > 1
    /\ out.pix[1] = Colour(40, 40, 40)

\* the exclusion rule as the specification words it
ExcludedAsSpecified(px, config) ==
    \/ RGt(MaxChannel(px), config.highlight_threshold)
    \/ RLt(MinChannel(px), config.shadow_threshold)
    \/ /\ MaxChannel(px) # RInt(0)
       /\ RGt(RDiv(RSub(MaxChannel(px), MinChannel(px)), MaxChannel(px)),
              Hundredth(80))

\* C5: in every gray-world implementation a pixel is left out of the means
\* exactly when its max channel exceeds the highlight threshold, its min
\* channel is below the shadow threshold, or its saturation exceeds 0.8.
C5_MaskAsSpecified ==
    /\ gop = "computeGrayWorld" =>
         \A i \in 1..NPix(image) :
             GrayWorldMask(image, cfg)[i] = ~ExcludedAsSpecified(image.pix[i], cfg)
    /\ gop = "computeGrayWorldGains" =>
         \A i \in 1..NPix(image) :
             ToolGrayWorldMask(image)[i] = ~ExcludedAsSpecified(image.pix[i], cfg)

\* the patches the scan of computePerfectReflector visits, by position: the
\* origins are the multiples of the stride below rows - patch_size and
\* cols - patch_size
VisitedOrigins(img, config) ==
    LET ps == config.patch_size
        stride == ps \div 2
    IN  {o \in (0..(img.cols - 1)) \X (0..(img.rows - 1)) :
            /\ o[1] < img.cols - ps /\ o[2] < img.rows - ps
            /\ IF stride = 0 THEN o = <<0, 0>>
               ELSE o[1] % stride = 0 /\ o[2] % stride = 0}

NoBrightPatch(img, config) ==
    \A o \in VisitedOrigins(img, config) :
        RLe(MeanLuminance(PatchMean(img, config, o)), config.reflectance_threshold)

\* C6: whenever no scanned patch has mean luminance above
\* reflectance_threshold, computePerfectReflector returns the triple
\* computeGrayWorld returns for the same image and config.
C6_FallbackToGrayWorld ==
    (gop = "computePerfectReflector" /\ NoBrightPatch(image, cfg)) =>
        (gstatus = "ok" /\ gains = computeGrayWorld(image, cfg))

-----------------------------------------------------------------------------
(* Gain application on its own: up to MaxApply triples applied in a row     *)

MaxApply == 2

ApplyColours == {Cast, White, Black}

\* the triples handed to the application, in (red, green, blue) order
GainChoices ==
    {Gains(RInt(2), RInt(1), Rat(1, 2)),
     Gains(Rat(1, 2), RInt(1), RInt(3)),
     Gains(RInt(5), RInt(1), Rat(1, 5)),
     Gains(Rat(3, 10), Rat(7, 10), Rat(11, 10)),
     Gains(RInt(0), RInt(-1), Rat(3, 2))}

InitApply ==
    /\ \E r \in 1..MaxSide, c \in 1..MaxSide,
          bg \in ApplyColours, fg \in ApplyColours :
         \E k \in {1, r * c} : image = SpotImage(r, c, bg, fg, k)
    /\ cfg = DefaultConfig
    /\ gop = None /\ garg = None /\ gstatus = "idle" /\ gains = None
    /\ applied = <<>> /\ out = None
    /\ aimpl \in {"wb", "tool"}
    /\ TempIdle

\* one more call of the application, on the buffer the previous call returned
ApplyGainsStep ==
    /\ Len(applied) < MaxApply
    /\ \E g \in GainChoices :
         /\ out' = Apply(aimpl, IF applied = <<>> THEN image ELSE out, g)
         /\ applied' = Append(applied, g)
    /\ UNCHANGED <<image, cfg, gop, garg, gstatus, gains, aimpl>>
    /\ UNCHANGED tempVars

NextApply == ApplyGainsStep

SpecApply == InitApply /\ [][NextApply]_vars

\* the elementwise product of the triples of a sequence
RECURSIVE GainProduct(_)
GainProduct(gs) ==
    IF gs = <<>> THEN DefaultGains
    ELSE LET rest == GainProduct(Tail(gs))
         IN  Gains(RMul(Head(gs).red_gain, rest.red_gain),
                   RMul(Head(gs).green_gain, rest.green_gain),
                   RMul(Head(gs).blue_gain, rest.blue_gain))

\* C3: applying A and then B gives, pixel by pixel and channel by channel,
\* what applying the elementwise product of A and B gives, and every output
\* sample is the unclamped product of the input sample and the gains.
C3_Composable ==
    Len(applied) >= 1 =>
        LET ab == GainProduct(applied)
        IN  /\ out = Apply(aimpl, image, ab)
            /\ \A i \in 1..NPix(image) :
                 out.pix[i] = <<RMul(image.pix[i][1], ab.blue_gain),
                                RMul(image.pix[i][2], ab.green_gain),
                                RMul(image.pix[i][3], ab.red_gain)>>

C3_Witness ==
    /\ Len(applied) = 2 /\ applied[1] # applied[2]
    /\ aimpl = "wb"
    /\ \E i \in 1..NPix(image) : RGt(out.pix[i][3], RInt(1))
    /\ \E i \in 1..NPix(image) : image.pix[i] # image.pix[1]

-----------------------------------------------------------------------------
(* Colour-temperature conversions                                           *)
(* (color_temperature.cpp, wb_temperature.h, compute_white_balance.cpp)     *)

\* constexpr double EPSILON = 1e-6
EPSILON == Micro

\* ChromaticityXY(double x_ = 0.3127, double y_ = 0.3290)
DefaultXY == <<Rat(3127, 10000), Rat(3290, 10000)>>

XyToUVDenom(c) ==
    RAdd(RAdd(RMul(RInt(-2), c[1]), RMul(RInt(12), c[2])), RInt(3))

\* xyToUV returns {0.0, 0.0}
XyToUVDegenerate(c) == RLt(RAbs(XyToUVDenom(c)), EPSILON)

xyToUV(c) ==
    IF XyToUVDegenerate(c) THEN <<RInt(0), RInt(0)>>
    ELSE <<RDiv(RMul(RInt(4), c[1]), XyToUVDenom(c)),
           RDiv(RMul(RInt(6), c[2]), XyToUVDenom(c))>>

UvToXYDenom(uv) ==
    RAdd(RSub(RMul(RInt(2), uv[1]), RMul(RInt(8), uv[2])), RInt(4))

\* uvToXY returns ChromaticityXY()
UvToXYDegenerate(uv) == RLt(RAbs(UvToXYDenom(uv)), EPSILON)

\* the inverse of the CIE 1976 (u', v') coordinates in place of the 1960 one
uvPrimeToXY(uv) ==
    LET denom == RAdd(RSub(RMul(RInt(6), uv[1]), RMul(RInt(16), uv[2])), RInt(12))
    IN  IF RLt(RAbs(denom), EPSILON) THEN DefaultXY
        ELSE <<RDiv(RMul(RInt(9), uv[1]), denom),
               RDiv(RMul(RInt(4), uv[2]), denom)>>

uvToXY(uv) ==
    IF UvToXYDegenerate(uv) THEN DefaultXY
    ELSE <<RDiv(RMul(RInt(3), uv[1]), UvToXYDenom(uv)),
           RDiv(RMul(RInt(2), uv[2]), UvToXYDenom(uv))>>

\* IEEE 754 doubles: a rational <<n, d>> with d > 0, or one of the special
\* values a division by zero produces, written with denominator 0
PosInf == <<1, 0>>
NegInf == <<-1, 0>>
NaN == <<0, 0>>

\* a / b for finite a and b
Div754(a, b) ==
    IF b[1] # 0 THEN RDiv(a, b)
    ELSE IF a[1] > 0 THEN PosInf
    ELSE IF a[1] < 0 THEN NegInf
    ELSE NaN

\* a < b; every comparison with NaN is false
Lt754(a, b) ==
    IF a = NaN \/ b = NaN THEN FALSE
    ELSE IF a = PosInf \/ b = NegInf THEN FALSE
    ELSE IF a = NegInf \/ b = PosInf THEN TRUE
    ELSE RLt(a, b)

\* std::min(a, b) == (b < a) ? b : a and std::max(a, b) == (a < b) ? b : a
StdMin(a, b) == IF Lt754(b, a) THEN b ELSE a
StdMax(a, b) == IF Lt754(a, b) THEN b ELSE a

\* 449 n^3 + 3525 n^2 + 6823.3 n + 5520.33; +inf for n = +inf, NaN for
\* n = -inf (-inf + inf) and for n = NaN
McCamyCubic(n) ==
    IF n = PosInf THEN PosInf
    ELSE IF n \in {NegInf, NaN} THEN NaN
    ELSE RAdd(RAdd(RAdd(RMul(RInt(449), RMul(n, RMul(n, n))),
                        RMul(RInt(3525), RMul(n, n))),
                   RMul(Rat(68233, 10), n)),
              Rat(552033, 100))

\* std::abs(a) < 1e-12: a non-zero number of the model is n/d with
\* d < 2^31, so its magnitude is above 1e-12
AbsBelowPico(a) == a[1] = 0

McCamyN(c) ==
    Div754(RSub(c[1], Rat(3320, 10000)), RSub(Rat(1858, 10000), c[2]))

\* ColorTemp::xyToKelvin (color_temperature.cpp)
xyToKelvin(c) ==
    StdMax(RInt(1000), StdMin(RInt(25000), McCamyCubic(McCamyN(c))))

\* color::clamp (wb_color_space.h) and clampValue (compute_white_balance.cpp)
clampValue(v, lo, hi) == StdMax(lo, StdMin(v, hi))

\* wb::temperature::cctFromXy_McCamy (wb_temperature.h)
cctFromXy_McCamy(c) ==
    IF AbsBelowPico(RSub(Rat(1858, 10000), c[2]))
    THEN RInt(6500)
    ELSE clampValue(McCamyCubic(McCamyN(c)), RInt(1000), RInt(40000))

\* cctFromXy_McCamy of compute_white_balance.cpp
toolCctFromXy_McCamy(c) ==
    clampValue(McCamyCubic(McCamyN(c)), RInt(1000), RInt(40000))

\* the polynomial a Kelvin-to-xy function evaluates, as the coefficients it
\* selects: x = a3 (10^3/T)^3 + a2 (10^3/T)^2 + a1 (10^3/T) + a0 with the a's
\* in units of 1e-7, and y = b3 x^3 + b2 x^2 + b1 x + b0 with the b's in units
\* of 1e-8
Locus(T, xpoly, ypoly) == [T |-> T, xpoly |-> xpoly, ypoly |-> ypoly]

Constant7(v) == <<0, 0, 0, v>>     \* x fixed at v * 1e-7
Constant8(v) == <<0, 0, 0, v>>     \* y fixed at v * 1e-8

XLow == <<-2661239, -2343589, 8776956, 1799100>>
XHigh == <<-30258469, 21070379, 2226347, 2403900>>
YLow == <<-110638140, -134811020, 218555832, -20219683>>
YMid == <<-95494760, -137418593, 209137015, -16748867>>
YHigh == <<308175800, -587338670, 375112997, -37001483>>

\* x_approx of xyFromCct_DaylightApprox for the low range
DaylightXLow == <<-2661239, -2343580, 8776956, 1799100>>

IMin(a, b) == IF b < a THEN b ELSE a
IMax(a, b) == IF a < b THEN b ELSE a

\* ColorTemp::kelvinToXY (color_temperature.cpp)
kelvinToXY(K) ==
    LET T == IMax(1000, IMin(25000, K))
        x == IF T >= 1667 /\ T < 4000 THEN XLow
             ELSE IF T >= 4000 /\ T <= 25000 THEN XHigh
             ELSE IF T < 1667 THEN Constant7(5268000)
             ELSE Constant7(2526000)
        y == IF T >= 1667 /\ T < 2222 THEN YLow
             ELSE IF T >= 2222 /\ T < 4000 THEN YMid
             ELSE IF T >= 4000 THEN YHigh
             ELSE Constant8(40000000)
    IN  Locus(T, x, y)

\* wb::temperature::xyFromCct_DaylightApprox (wb_temperature.h)
xyFromCct_DaylightApprox(K) ==
    LET cct == IMax(1667, IMin(K, 25000))
        x == IF cct >= 1667 /\ cct <= 4000 THEN DaylightXLow ELSE XHigh
    IN  Locus(cct, x, YLow)

\* xyFromCct_DaylightApprox of compute_white_balance.cpp
toolXyFromCct_DaylightApprox(K) ==
    LET t == IMax(1667, IMin(K, 25000))
        x == IF t >= 1667 /\ t <= 4000 THEN DaylightXLow ELSE XHigh
    IN  Locus(t, x, YLow)

-----------------------------------------------------------------------------
(* Inputs and calls of the colour-temperature functions                     *)

GainsIdle ==
    /\ image = None /\ cfg = None /\ gop = None /\ garg = None
    /\ gstatus = "idle" /\ gains = None /\ applied = <<>> /\ out = None
    /\ aimpl = None

TempCall(fn, res) ==
    /\ tfn' = fn /\ tres' = res
    /\ UNCHANGED <<xy, kelvin>>
    /\ UNCHANGED gainVars

\* chromaticities k/GridN inside and on the triangle x, y >= 0, x + y <= 1
GridN == 10

TrianglePoints ==
    {<<Rat(i, GridN), Rat(j, GridN)>> : i \in 0..GridN, j \in 0..GridN}

InTriangle(c) ==
    /\ RGe(c[1], RInt(0)) /\ RGe(c[2], RInt(0))
    /\ RLe(RAdd(c[1], c[2]), RInt(1))

\* chromaticities on the line -2x + 12y + 3 = 0, where xyToUV is degenerate
OffGamut == {<<Rat(3, 2), RInt(0)>>, <<RInt(3), Rat(1, 4)>>}

InitUV ==
    /\ xy \in TrianglePoints \cup OffGamut
    /\ kelvin = None /\ tfn = None /\ tres = None
    /\ GainsIdle

CallXyToUV ==
    /\ tfn = None
    /\ TempCall("xyToUV", [uv |-> xyToUV(xy), degenerate |-> XyToUVDegenerate(xy)])

\* uvToXY on what xyToUV returned
CallUvToXY ==
    /\ tfn = "xyToUV"
    /\ TempCall("uvToXY",
                [uv |-> tres.uv, xy |-> uvToXY(tres.uv),
                 degenerate |-> tres.degenerate \/ UvToXYDegenerate(tres.uv)])

NextUV == CallXyToUV \/ CallUvToXY

SpecUV == InitUV /\ [][NextUV]_vars

\* C7: for 0 <= x, 0 <= y, x + y <= 1, uvToXY(xyToUV(x, y)) is (x, y) again
\* and neither conversion takes its degenerate-denominator branch.
C7_RoundTrip ==
    (tfn = "uvToXY" /\ InTriangle(xy)) => (tres.xy = xy /\ ~tres.degenerate)

C7_Witness ==
    /\ tfn = "uvToXY" /\ InTriangle(xy)
    /\ xy = <<Rat(3, 10), Rat(3, 10)>>
    /\ tres.uv = <<Rat(2, 10), Rat(3, 10)>>

\* chromaticities (0.3320 + i/100, 0.1858 - j/100), |i|, |j| <= MaxOffset: the
\* McCamy ratio n is i/j, and j = 0 is the line y = 0.1858
MaxOffset == 8

McCamyPoints ==
    {<<Rat(3320 + 100 * i, 10000), Rat(1858 - 100 * j, 10000)>> :
        i \in (-MaxOffset)..MaxOffset, j \in (-MaxOffset)..MaxOffset}

InitCct ==
    /\ xy \in McCamyPoints
    /\ kelvin = None /\ tfn = None /\ tres = None
    /\ GainsIdle

CallXyToKelvin ==
    /\ tfn = None
    /\ TempCall("xyToKelvin", xyToKelvin(xy))

CallCctFromXy ==
    /\ tfn = None
    /\ TempCall("cctFromXy_McCamy", cctFromXy_McCamy(xy))

CallToolCctFromXy ==
    /\ tfn = None
    /\ TempCall("toolCctFromXy_McCamy", toolCctFromXy_McCamy(xy))

NextCct == CallXyToKelvin \/ CallCctFromXy \/ CallToolCctFromXy

SpecCct == InitCct /\ [][NextCct]_vars

CctFunctions == {"xyToKelvin", "cctFromXy_McCamy", "toolCctFromXy_McCamy"}

OnMcCamyPole(c) == c[2] = Rat(1858, 10000)

\* C8: every xy-to-CCT function returns the McCamy cubic clamped to
\* [1000, 40000]: 1000 below, 40000 above, the cubic itself in between.
C8_ClampedTo40000 ==
    (tfn \in CctFunctions /\ ~OnMcCamyPole(xy)) =>
        LET cubic == McCamyCubic(RDiv(RSub(xy[1], Rat(3320, 10000)),
                                      RSub(Rat(1858, 10000), xy[2])))
        IN  tres = IF RLt(cubic, RInt(1000)) THEN RInt(1000)
                   ELSE IF RGt(cubic, RInt(40000)) THEN RInt(40000)
                   ELSE cubic

\* C9: at y = 0.1858 every xy-to-CCT function returns the fallback 6500 K.
C9_PoleGuarded ==
    (tfn \in CctFunctions /\ OnMcCamyPole(xy)) => tres = RInt(6500)

\* temperatures 1000 + 500 k, k <= MaxKelvinStep, and the regime edges
MaxKelvinStep == 48

KelvinInputs ==
    {1000 + 500 * k : k \in 0..MaxKelvinStep} \cup
    {500, 1666, 1667, 1668, 2221, 2222, 2223, 3999, 4000, 4001, 24999, 25001,
     30000}

InitKelvin ==
    /\ kelvin \in KelvinInputs
    /\ xy = None /\ tfn = None /\ tres = None
    /\ GainsIdle

CallKelvinToXY ==
    /\ tfn = None
    /\ TempCall("kelvinToXY", kelvinToXY(kelvin))

CallXyFromCct ==
    /\ tfn = None
    /\ TempCall("xyFromCct_DaylightApprox", xyFromCct_DaylightApprox(kelvin))

CallToolXyFromCct ==
    /\ tfn = None
    /\ TempCall("toolXyFromCct_DaylightApprox",
                toolXyFromCct_DaylightApprox(kelvin))

NextKelvin == CallKelvinToXY \/ CallXyFromCct \/ CallToolXyFromCct

SpecKelvin == InitKelvin /\ [][NextKelvin]_vars

KelvinFunctions ==
    {"kelvinToXY", "xyFromCct_DaylightApprox", "toolXyFromCct_DaylightApprox"}

\* C10: for T in [1667, 25000] every Kelvin-to-xy function takes the
\* low-temperature x coefficients iff T < 4000 and the high-temperature ones
\* iff T >= 4000, and the y cubic of 1667 <= T < 2222, 2222 <= T < 4000 or
\* T >= 4000, with the coefficients of the specification.
C10_Regimes ==
    (tfn \in KelvinFunctions /\ kelvin >= 1667 /\ kelvin <= 25000) =>
        /\ tres.xpoly =
             (IF kelvin < 4000
              THEN <<-2661239, -2343589, 8776956, 1799100>>
              ELSE <<-30258469, 21070379, 2226347, 2403900>>)
        /\ tres.ypoly =
             (IF kelvin < 2222
              THEN <<-110638140, -134811020, 218555832, -20219683>>
              ELSE IF kelvin < 4000
              THEN <<-95494760, -137418593, 209137015, -16748867>>
              ELSE <<308175800, -587338670, 375112997, -37001483>>)

-----------------------------------------------------------------------------
(* Fixed-point numbers for the compositions of the colour-temperature       *)
(* functions: a double is an integer count of 1e-8 (a temperature, a count  *)
(* of 1e-4 K); a product or quotient is cut to that grid where the code     *)
(* rounds to the nearest double.                                            *)

FxOne == 10000 * 10000
KelvinOne == 100 * 100
Huge == 2000000000 + 147483647

Sgn(a) == IF a < 0 THEN -1 ELSE IF a > 0 THEN 1 ELSE 0

\* a * b / FxOne cut towards zero, by halves of four decimal digits
FMul(a, b) ==
    LET ah == Abs(a) \div KelvinOne
        al == Abs(a) % KelvinOne
        bh == Abs(b) \div KelvinOne
        bl == Abs(b) % KelvinOne
        hl == ah * bl
        lh == al * bh
    IN  Sgn(a) * Sgn(b)
          * (ah * bh + hl \div KelvinOne + lh \div KelvinOne
             + (((hl % KelvinOne) + (lh % KelvinOne)) * KelvinOne + al * bl)
                 \div FxOne)

\* the power of ten that brings 0 < b < 0.1 into [0.1, 1)
ScaleOf(b) ==
    IF b >= 1000 * KelvinOne THEN 1
    ELSE IF b >= 100 * KelvinOne THEN 10
    ELSE IF b >= 10 * KelvinOne THEN 100
    ELSE IF b >= KelvinOne THEN 1000
    ELSE IF b >= 1000 THEN KelvinOne
    ELSE IF b >= 100 THEN 10 * KelvinOne
    ELSE IF b >= 10 THEN 100 * KelvinOne
    ELSE 1000 * KelvinOne

\* one step of Newton's iteration for 1 / b
RecipStep(b, x) == x + FMul(x, FxOne - FMul(b, x))

\* 1 / b for b >= 0.1
Recip(b) ==
    LET x0 == (FxOne \div (b \div KelvinOne)) * KelvinOne
    IN  RecipStep(b, RecipStep(b, RecipStep(b, x0)))

\* a / b for b # 0, to a few units of 1e-8; Huge from a quotient of 21 on
FDiv(a, b) ==
    LET aa == Abs(a)
        bb == Abs(b)
        k == ScaleOf(bb)
    IN  IF aa \div bb >= 21 THEN Sgn(a) * Sgn(b) * Huge
        ELSE Sgn(a) * Sgn(b)
               * ((aa \div bb) * FxOne + FMul((aa % bb) * k, Recip(bb * k)))

\* the decimal literal n / d, d a power of ten up to 1e8
Fx(n, d) == n * (FxOne \div d)

\* one step of Newton's iteration for the square root of a
NewtonStep(a, s) == (s + FDiv(a, s)) \div 2

\* the square root of a number between 1 and 2
SqrtOneToTwo(a) ==
    LET s1 == NewtonStep(a, 3 * (FxOne \div 2))
        s2 == NewtonStep(a, s1)
        s3 == NewtonStep(a, s2)
        s4 == NewtonStep(a, s3)
    IN  NewtonStep(a, s4)

\* std::sqrt(du * du + dv * dv), as max * sqrt(1 + (min / max)^2)
Hypot(du, dv) ==
    LET hi == IMax(Abs(du), Abs(dv))
        lo == IMin(Abs(du), Abs(dv))
        q == FDiv(lo, hi)
    IN  IF hi = 0 THEN 0
        ELSE FMul(hi, SqrtOneToTwo(FxOne + FMul(q, q)))

\* a3 v^3 + a2 v^2 + a1 v + a0 for coefficients in units of 1e-8
Cubic(a, v) ==
    LET v2 == FMul(v, v)
        v3 == FMul(v2, v)
    IN  FMul(a[1], v3) + FMul(a[2], v2) + FMul(a[3], v) + a[4]

\* the daylight approximation with its single y cubic in place of kelvinToXY
kelvinToXYDaylightAt(Tk) ==
    LET T == IMax(1667 * KelvinOne, IMin(25000 * KelvinOne, Tk))
        xp == IF T <= 4000 * KelvinOne THEN DaylightXLow ELSE XHigh
        x == Cubic([i \in 1..4 |-> 10 * xp[i]], FDiv(FxOne \div 10, T))
    IN  <<x, Cubic(YLow, x)>>

\* the chromaticity ColorTemp::kelvinToXY returns for a temperature of
\* Tk * 1e-4 K: the polynomials kelvinToXY selects, evaluated at the clamped
\* temperature
kelvinToXYAt(Tk) ==
    LET l == kelvinToXY(Tk \div KelvinOne)
        T == IMax(1000 * KelvinOne, IMin(25000 * KelvinOne, Tk))
        r == FDiv(FxOne \div 10, T)      \* 1e3 / T
        x == Cubic([i \in 1..4 |-> 10 * l.xpoly[i]], r)
    IN  <<x, Cubic(l.ypoly, x)>>

\* McCamy's cubic as first published, -449 n^3 + 3525 n^2 - 6823.3 n + 5520.33,
\* which belongs to n = (x - 0.3320) / (y - 0.1858), on the n of xyToKelvin
McCamyPublishedSignsAt(num, den) ==
    IF den = 0 THEN Huge
    ELSE IF Abs(num) \div 4 >= Abs(den) THEN -Sgn(num) * Sgn(den) * Huge
    ELSE LET n == FDiv(num, den)
             a1 == 3525 * KelvinOne - FMul(449 * KelvinOne, n)
             a2 == FMul(a1, n) - 68233 * (KelvinOne \div 10)
         IN  FMul(a2, n) + 552033 * (KelvinOne \div 100)

\* 449 n^3 + 3525 n^2 + 6823.3 n + 5520.33 in units of 1e-4 K, for
\* n = num / den.  Above n = 4 the cubic exceeds 117949 and below n = -8 it
\* is under -53354: there it is reported as Huge and -Huge, which every clamp
\* of the code treats alike.  For den = 0 the code computes with +inf, -inf
\* or NaN; its clamp std::max(1000.0, std::min(25000.0, cct)) makes 25000 of
\* each of them, as it does of Huge.
McCamyAt(num, den) ==
    IF den = 0 THEN Huge
    ELSE IF Sgn(num) * Sgn(den) > 0 /\ Abs(num) \div 4 >= Abs(den) THEN Huge
    ELSE IF Sgn(num) * Sgn(den) < 0 /\ Abs(num) \div 8 >= Abs(den) THEN -Huge
    ELSE LET n == FDiv(num, den)
             a1 == FMul(449 * KelvinOne, n) + 3525 * KelvinOne
             a2 == FMul(a1, n) + 68233 * (KelvinOne \div 10)
         IN  FMul(a2, n) + 552033 * (KelvinOne \div 100)

\* ColorTemp::xyToKelvin on fixed-point chromaticities, in units of 1e-4 K
xyToKelvinAt(c) ==
    IMax(1000 * KelvinOne,
         IMin(25000 * KelvinOne,
              McCamyAt(c[1] - Fx(3320, 10000), Fx(1858, 10000) - c[2])))

\* ColorTemp::xyToUV on fixed-point chromaticities
xyToUVAt(c) ==
    LET denom == -2 * c[1] + 12 * c[2] + 3 * FxOne
    IN  IF Abs(denom) < Fx(1, 1000000) THEN <<0, 0>>
        ELSE <<FDiv(4 * c[1], denom), FDiv(6 * c[2], denom)>>

\* ColorTemp::calculateDuv
calculateDuv(c) ==
    LET cct == xyToKelvinAt(c)
        blackbody == kelvinToXYAt(cct)
        actual == xyToUVAt(c)
        bb == xyToUVAt(blackbody)
        duv == Hypot(actual[1] - bb[1], actual[2] - bb[2])
    IN  IF actual[2] < bb[2] THEN -duv ELSE duv

-----------------------------------------------------------------------------
(* The four computations of Duv                                             *)

IClamp(v, lo, hi) == IMax(lo, IMin(v, hi))

\* wb::temperature::cctFromXy_McCamy (wb_temperature.h), in units of 1e-4 K
cctFromXy_McCamyAt(c) ==
    LET den == Fx(1858, 10000) - c[2]
    IN  IF den = 0 THEN 6500 * KelvinOne
        ELSE IClamp(McCamyAt(c[1] - Fx(3320, 10000), den),
                    1000 * KelvinOne, 40000 * KelvinOne)

\* cctFromXy_McCamy of compute_white_balance.cpp: no guard at y = 0.1858,
\* where n is +inf (clamped to 40000) or -inf or NaN (the cubic is NaN, which
\* clampValue turns into 1000)
toolCctFromXy_McCamyAt(c) ==
    LET num == c[1] - Fx(3320, 10000)
        den == Fx(1858, 10000) - c[2]
    IN  IF den = 0
        THEN (IF num > 0 THEN 40000 * KelvinOne ELSE 1000 * KelvinOne)
        ELSE IClamp(McCamyAt(num, den), 1000 * KelvinOne, 40000 * KelvinOne)

\* xyFromCct_DaylightApprox (wb_temperature.h and, with the same text,
\* compute_white_balance.cpp) at a temperature of Tk * 1e-4 K
xyFromCct_DaylightApproxAt(Tk) ==
    LET cct == IClamp(Tk, 1667 * KelvinOne, 25000 * KelvinOne)
        xp == IF cct <= 4000 * KelvinOne THEN DaylightXLow ELSE XHigh
        x == Cubic([i \in 1..4 |-> 10 * xp[i]], FDiv(FxOne \div 10, cct))
    IN  <<x, Cubic(YLow, x)>>

\* xyToXyz: Y = 1
xyToXyzAt(c) ==
    IF c[2] <= 0 THEN <<0, 0, 0>>
    ELSE LET s == FDiv(FxOne, c[2])
         IN  <<FMul(c[1], s), FxOne, FMul(FxOne - c[1] - c[2], s)>>

\* xyzToUvPrime: u' = 4X / (X + 15Y + 3Z), v' = 9Y / (X + 15Y + 3Z).  The
\* quotients are taken with a quarter of numerator and denominator, the
\* denominator itself being beyond the integers of the model for Y = 1.
xyzToUvPrimeAt(X) ==
    LET quarter == X[1] \div 4 + 15 * (X[2] \div 4) + 3 * (X[3] \div 4)
    IN  IF quarter <= 0 THEN <<0, 0>>
        ELSE <<FDiv(X[1], quarter), FDiv(9 * (X[2] \div 4), quarter)>>

\* xyzToXy
xyzToXyAt(X) ==
    LET denom == X[1] + X[2] + X[3]
    IN  IF denom <= 0 THEN <<0, 0>>
        ELSE <<FDiv(X[1], denom), FDiv(X[2], denom)>>

\* srgbToXyzMatrix, the matrix of linearSrgbToXyz
srgbToXyzMatrix ==
    <<<<41245640, 35757610, 18043750>>,
      <<21267290, 71515220, 7217500>>,
      <<1933390, 11919200, 95030410>>>>

\* the product of a 3x3 matrix and a vector
MatVec(M, w) ==
    [i \in 1..3 |-> FMul(M[i][1], w[1]) + FMul(M[i][2], w[2])
                      + FMul(M[i][3], w[3])]

linearSrgbToXyz(rgb) == MatVec(srgbToXyzMatrix, rgb)

\* (u', v') of the daylight-approximation point at a temperature
LocusUvPrime(cct) == xyzToUvPrimeAt(xyToXyzAt(xyFromCct_DaylightApproxAt(cct)))

\* wb::temperature::calculateDuv(x, y, cct) (wb_temperature.h): v1 - v2
temperatureCalculateDuv(c, cct) ==
    xyzToUvPrimeAt(xyToXyzAt(c))[2] - LocusUvPrime(cct)[2]

\* estimateCctTintFromLinearSrgbAverages (compute_white_balance.cpp)
estimateCctTintFromLinearSrgbAverages(rgb) ==
    LET X == linearSrgbToXyz(rgb)
        cct == toolCctFromXy_McCamyAt(xyzToXyAt(X))
        uv == xyzToUvPrimeAt(X)
        ref == LocusUvPrime(cct)
        duv == Hypot(uv[1] - ref[1], uv[2] - ref[2])
    IN  [cct |-> cct, duv |-> IF uv[2] >= ref[2] THEN duv ELSE -duv]

\* wCam of getAsShotDuv and getAsShotCct: the reciprocals of the multipliers
\* R, (G1 + G2) / 2 and B, or 1 for a multiplier that is not above 1e-9
AsShotWeights(camMul) ==
    LET g == (camMul[2] + camMul[4]) \div 2
        w(m) == IF m > 0 THEN FDiv(FxOne, m) ELSE FxOne
    IN  <<w(camMul[1]), w(g), w(camMul[3])>>

\* getAsShotDuv (compute_white_balance.cpp) for the matrix M that
\* getCameraToXyzMatrix returned: duvAsShot = v - vr
getAsShotDuv(M, camMul) ==
    LET X == MatVec(M, AsShotWeights(camMul))
        cct == toolCctFromXy_McCamyAt(xyzToXyAt(X))
    IN  xyzToUvPrimeAt(X)[2] - LocusUvPrime(cct)[2]

\* linear sRGB averages k / DuvGrid, k >= 1, as fixed-point triples
DuvGrid == 4

DuvColours ==
    {<<r * (FxOne \div DuvGrid), g * (FxOne \div DuvGrid),
       b * (FxOne \div DuvGrid)>> : r \in 1..DuvGrid, g \in 1..DuvGrid,
                                    b \in 1..DuvGrid}

\* the chromaticity of a colour
ChromaOf(rgb) == xyzToXyAt(linearSrgbToXyz(rgb))

\* an estimate for a colour: kelvin holds the linear sRGB triple, xy its
\* chromaticity
InitDuv ==
    /\ kelvin \in DuvColours
    /\ xy = ChromaOf(kelvin)
    /\ tfn = None /\ tres = None
    /\ GainsIdle

CallCalculateDuv ==
    /\ tfn = None
    /\ TempCall("calculateDuv", calculateDuv(xy))

\* as estimateFromLinearSrgb calls it
CallTemperatureCalculateDuv ==
    /\ tfn = None
    /\ TempCall("temperatureCalculateDuv",
                temperatureCalculateDuv(xy, cctFromXy_McCamyAt(xy)))

CallEstimateCctTint ==
    /\ tfn = None
    /\ TempCall("estimateCctTintFromLinearSrgbAverages",
                estimateCctTintFromLinearSrgbAverages(kelvin).duv)

\* a camera whose matrix is the sRGB one and whose multipliers are the
\* reciprocals of the colour: XYZs is the XYZ of the colour
CallGetAsShotDuv ==
    /\ tfn = None
    /\ \E camMul \in {<<FDiv(FxOne, kelvin[1]), FDiv(FxOne, kelvin[2]),
                        FDiv(FxOne, kelvin[3]), FDiv(FxOne, kelvin[2])>>} :
          TempCall("getAsShotDuv", getAsShotDuv(srgbToXyzMatrix, camMul))

NextDuv ==
    \/ CallCalculateDuv
    \/ CallTemperatureCalculateDuv
    \/ CallEstimateCctTint
    \/ CallGetAsShotDuv

SpecDuv == InitDuv /\ [][NextDuv]_vars

DuvFunctions ==
    {"calculateDuv", "temperatureCalculateDuv",
     "estimateCctTintFromLinearSrgbAverages", "getAsShotDuv"}

\* the signed Euclidean distance in (u, v) between a chromaticity and the
\* locus point at its own CCT, negative iff its v is below the locus point's
SignedUvDistance(c) ==
    LET uv == xyToUVAt(c)
        bb == xyToUVAt(kelvinToXYAt(xyToKelvinAt(c)))
        d == Hypot(uv[1] - bb[1], uv[2] - bb[2])
    IN  IF uv[2] < bb[2] THEN -d ELSE d

\* two results that agree to 1e-6
DuvTol == FxOne \div (1000 * 1000)

\* C11: every computation of Duv returns, for a chromaticity, the signed
\* Euclidean distance in (u, v) to the locus point at the chromaticity's own
\* CCT, so that all of them return the same value for the same chromaticity.
C11_SameDuvEverywhere ==
    tfn \in DuvFunctions => Abs(tres - SignedUvDistance(xy)) <= DuvTol

-----------------------------------------------------------------------------
(* The locus and its own temperature and Duv                                *)

\* temperatures 1000 + 250 k, k <= MaxLocusStep, in units of 1e-4 K
MaxLocusStep == 96

LocusKelvins == {(1000 + 250 * k) * KelvinOne : k \in 0..MaxLocusStep}

InitLocus ==
    /\ kelvin \in LocusKelvins
    /\ xy = None /\ tfn = None /\ tres = None
    /\ GainsIdle

CallKelvinToXYAt ==
    /\ tfn = None
    /\ xy' = kelvinToXYAt(kelvin)
    /\ tfn' = "kelvinToXY" /\ tres' = xy'
    /\ UNCHANGED kelvin
    /\ UNCHANGED gainVars

\* calculateDuv(kelvinToXY(kelvin))
CallDuvOfLocus ==
    /\ tfn = "kelvinToXY"
    /\ TempCall("calculateDuv", calculateDuv(xy))

\* xyToKelvin(kelvinToXY(kelvin))
CallKelvinOfLocus ==
    /\ tfn = "kelvinToXY"
    /\ TempCall("xyToKelvin", xyToKelvinAt(xy))

NextLocus == CallKelvinToXYAt \/ CallDuvOfLocus \/ CallKelvinOfLocus

SpecLocus == InitLocus /\ [][NextLocus]_vars

Supported(Tk) == Tk >= 1000 * KelvinOne /\ Tk <= 25000 * KelvinOne

C13_RoundTrip20000 ==
    (tfn = "xyToKelvin" /\ kelvin >= 2000 * KelvinOne
                        /\ kelvin <= 20000 * KelvinOne) =>
        Abs(tres - kelvin) <= 50 * KelvinOne

\* C13, amended: for every kelvin in [2000, 8500],
\* xyToKelvin(kelvinToXY(kelvin)) is within 50 K of kelvin.
C13_RoundTrip8500 ==
    (tfn = "xyToKelvin" /\ kelvin >= 2000 * KelvinOne
                        /\ kelvin <= 8500 * KelvinOne) =>
        Abs(tres - kelvin) <= 50 * KelvinOne

\* 8500 K comes back as about 8462 K
C13_Witness ==
    /\ tfn = "xyToKelvin" /\ kelvin = 8500 * KelvinOne
    /\ tres > 8460 * KelvinOne /\ tres < 8465 * KelvinOne

-----------------------------------------------------------------------------
(* Tint and Duv                                                             *)

\* wb::temperature::uiTintToDuv (wb_temperature.h)
uiTintToDuv(tint_ui, scale) ==
    LET s == IF RLe(scale, Nano) THEN RInt(1000) ELSE scale
    IN  RNeg(RDiv(tint_ui, s))

\* wb::temperature::duvToUiTint (wb_temperature.h)
duvToUiTint(duv, scale) == RNeg(RMul(duv, scale))

\* uiTintToDuv of compute_white_balance.cpp
toolUiTintToDuv(tintUi, scale) ==
    LET s == IF RLe(scale, Nano) THEN RInt(1000) ELSE scale
    IN  RNeg(RDiv(tintUi, s))

\* ColorTemp::tintToDuv and ColorTemp::duvToTint (color_temperature.cpp)
tintToDuv(tint) == RDiv(tint, RInt(3000))
duvToTint(duv) == RMul(duv, RInt(3000))

\* tints 10 k, |k| <= MaxTint
MaxTint == 6

Tints == {RInt(10 * k) : k \in (-MaxTint)..MaxTint}

Scales == {RInt(-1000), RInt(0), RInt(1), RInt(500), RInt(1000), RInt(3000)}

\* kelvin holds the arguments, a tint and a scale
InitTint ==
    /\ kelvin \in [tint : Tints, scale : Scales]
    /\ xy = None /\ tfn = None /\ tres = None
    /\ GainsIdle

CallUiTintToDuv ==
    /\ tfn = None
    /\ TempCall("uiTintToDuv", uiTintToDuv(kelvin.tint, kelvin.scale))

CallToolUiTintToDuv ==
    /\ tfn = None
    /\ TempCall("toolUiTintToDuv", toolUiTintToDuv(kelvin.tint, kelvin.scale))

CallTintToDuv ==
    /\ tfn = None
    /\ TempCall("tintToDuv", tintToDuv(kelvin.tint))

\* duvToUiTint(uiTintToDuv(t, s), s)
CallDuvToUiTint ==
    /\ tfn = "uiTintToDuv"
    /\ TempCall("duvToUiTint", duvToUiTint(tres, kelvin.scale))

\* duvToTint(tintToDuv(t))
CallDuvToTint ==
    /\ tfn = "tintToDuv"
    /\ TempCall("duvToTint", duvToTint(tres))

NextTint ==
    \/ CallUiTintToDuv
    \/ CallToolUiTintToDuv
    \/ CallTintToDuv
    \/ CallDuvToUiTint
    \/ CallDuvToTint

SpecTint == InitTint /\ [][NextTint]_vars

\* C14: every tint-to-Duv conversion returns -tint / scale, with scale 1000
\* where it takes none, and duvToUiTint(uiTintToDuv(t, s), s) = t for every
\* tint t and every scale s.
C14_TintDuvInverse ==
    /\ (tfn \in {"uiTintToDuv", "toolUiTintToDuv"} /\ RGt(kelvin.scale, RInt(0)))
          => tres = RNeg(RDiv(kelvin.tint, kelvin.scale))
    /\ tfn = "tintToDuv" => tres = RNeg(RDiv(kelvin.tint, RInt(1000)))
    /\ tfn = "duvToUiTint" => tres = kelvin.tint

-----------------------------------------------------------------------------
(* The scene white point from the camera multipliers and matrix             *)

\* EPSILON = 1e-6 on the grid of 1e-8
EpsilonAt == Fx(1, 1000000)

\* getStandardIlluminant("D65")
D65At == <<Fx(31271, 100000), Fx(32902, 100000)>>

\* a sanity threshold of 0.001 in place of 0.1
isValidWhitePointTight(c) ==
    /\ ~(c[1] < Fx(2, 10) \/ c[1] > Fx(5, 10))
    /\ ~(c[2] < Fx(2, 10) \/ c[2] > Fx(5, 10))
    /\ ~(Abs(calculateDuv(c)) > Fx(1, 1000))

\* ColorTemp::isValidWhitePoint
isValidWhitePoint(c) ==
    /\ ~(c[1] < Fx(2, 10) \/ c[1] > Fx(5, 10))
    /\ ~(c[2] < Fx(2, 10) \/ c[2] > Fx(5, 10))
    /\ ~(Abs(calculateDuv(c)) > Fx(1, 10))

\* the product taken row by row: XYZ[j] = sum of cam_xyz[j][i] * scene_rgb[i]
SceneXyzRowByRow(cam_xyz, scene_rgb) ==
    [j \in 1..3 |-> FMul(cam_xyz[j][1], scene_rgb[1])
                      + FMul(cam_xyz[j][2], scene_rgb[2])
                      + FMul(cam_xyz[j][3], scene_rgb[3])]

\* X, Y, Z of estimateWhitePointXYFromCamMulAndMatrix before the clipping:
\* XYZ[j] = sum over the first three rows i of cam_xyz[i][j] * scene_rgb[i]
SceneXyz(cam_xyz, scene_rgb) ==
    [j \in 1..3 |-> FMul(cam_xyz[1][j], scene_rgb[1])
                      + FMul(cam_xyz[2][j], scene_rgb[2])
                      + FMul(cam_xyz[3][j], scene_rgb[3])]

\* coeffs of estimateWhitePointXYFromCamMulAndMatrix before the division by
\* green_norm
WhitePointCoeffs(cam_mul) ==
    LET g1 == IF cam_mul[2] > 0 THEN cam_mul[2] ELSE FxOne
        g2 == IF cam_mul[4] > 0 THEN cam_mul[4] ELSE g1
        g_avg == (g1 + g2) \div 2
        Floor(v) == IF v <= 0 THEN FxOne ELSE v
    IN  <<Floor(cam_mul[1]), Floor(g_avg), Floor(cam_mul[3])>>

\* ColorTemp::estimateWhitePointXYFromCamMulAndMatrix.  Beside the returned
\* xy the result names the return statement taken ("D65", "locus" or
\* "computed"), the xy computed before the sanity check and the divisors made
\* from the multipliers.
estimateWhitePointXYFromCamMulAndMatrix(cam_mul, cam_xyz) ==
    LET c == WhitePointCoeffs(cam_mul)
        green_norm == IF c[2] <= 0 THEN FxOne ELSE c[2]
        coeffs == [i \in 1..3 |-> FDiv(c[i], green_norm)]
        scene_rgb == [i \in 1..3 |-> FDiv(FxOne, coeffs[i])]
        raw == SceneXyz(cam_xyz, scene_rgb)
        X0 == IMax(raw[1], EpsilonAt)
        Y0 == IMax(raw[2], EpsilonAt)
        Z0 == IMax(raw[3], EpsilonAt)
        X == IF Y0 > EpsilonAt THEN FDiv(X0, Y0) ELSE X0
        Y == IF Y0 > EpsilonAt THEN FxOne ELSE Y0
        Z == IF Y0 > EpsilonAt THEN FDiv(Z0, Y0) ELSE Z0
        sum == X + Y + Z
        c0 == <<FDiv(X, sum), FDiv(Y, sum)>>
        divisors == <<green_norm, coeffs[1], coeffs[2], coeffs[3]>>
    IN  IF sum <= EpsilonAt
        THEN [xy |-> D65At, path |-> "D65", computed |-> None,
              divisors |-> divisors]
        ELSE IF ~isValidWhitePoint(c0)
        THEN [xy |-> kelvinToXYAt(IClamp(xyToKelvinAt(c0), 2000 * KelvinOne,
                                         12000 * KelvinOne)),
              path |-> "locus", computed |-> c0, divisors |-> divisors]
        ELSE [xy |-> c0, path |-> "computed", computed |-> c0,
              divisors |-> divisors]

\* ColorTemp::estimateFromMultipliers up to the two std::pow calls, which are
\* left as they stand: the result names the branch taken for info.kelvin and
\* holds r_norm, b_norm, rb_ratio (with the value class IEEE 754 gives a
\* division by zero), info.duv and the divisors made from the multipliers
estimateFromMultipliers(r_mul, g_mul, b_mul) ==
    LET g == IF g_mul <= 0 THEN FxOne ELSE g_mul
        r_norm == FDiv(r_mul, g)
        b_norm == FDiv(b_mul, g)
        class == IF b_norm # 0 THEN "finite"
                 ELSE IF r_norm > 0 THEN "+inf"
                 ELSE IF r_norm < 0 THEN "-inf"
                 ELSE "nan"
        rb_ratio == IF b_norm # 0 THEN FDiv(r_norm, b_norm) ELSE 0
        warm == class = "+inf" \/ (class = "finite" /\ rb_ratio > FxOne)
        rg_diff == r_norm - FxOne
        bg_diff == b_norm - FxOne
        duv == IF (rg_diff > 0 /\ bg_diff > 0) \/ (rg_diff < 0 /\ bg_diff < 0)
               THEN IClamp((rg_diff + bg_diff) \div 40, -Fx(5, 100), Fx(5, 100))
               ELSE 0
    IN  [branch |-> IF warm THEN "5500 / pow(rb_ratio, 1.5)"
                    ELSE "5500 * pow(1 / rb_ratio, 0.8)",
         r_norm |-> r_norm, b_norm |-> b_norm,
         rb_ratio |-> [class |-> class, value |-> rb_ratio],
         duv |-> duv, divisors |-> <<g, b_norm>>]

\* getCameraToXyzMatrix (compute_white_balance.cpp): no matrix when every
\* entry of cam_xyz is zero, else the rows R, (G1 + G2) / 2, B
getCameraToXyzMatrix(cam_xyz) ==
    IF \A i \in 1..4, j \in 1..3 : cam_xyz[i][j] = 0
    THEN [ok |-> FALSE, M |-> None]
    ELSE [ok |-> TRUE,
          M |-> <<cam_xyz[1],
                  [j \in 1..3 |-> (cam_xyz[2][j] + cam_xyz[4][j]) \div 2],
                  cam_xyz[3]>>]

\* the multipliers getAsShotDuv and getAsShotCct divide by (1 where they
\* make no division)
AsShotDivisors(camMul) ==
    LET g == (camMul[2] + camMul[4]) \div 2
        d(m) == IF m > 0 THEN m ELSE FxOne
    IN  <<d(camMul[1]), d(g), d(camMul[3])>>

\* getAsShotCct (compute_white_balance.cpp) for the matrix M that
\* getCameraToXyzMatrix returned
getAsShotCct(M, camMul) ==
    toolCctFromXy_McCamyAt(xyzToXyAt(MatVec(M, AsShotWeights(camMul))))

\* camera matrices cam_xyz[4][3], row i the X, Y, Z of camera channel i (R,
\* G1, B, G2): the identity, the sRGB-to-XYZ map, no matrix, and the
\* sRGB-to-XYZ matrix stored row by row as it is printed
IdentityCam ==
    <<<<FxOne, 0, 0>>, <<0, FxOne, 0>>, <<0, 0, FxOne>>, <<0, FxOne, 0>>>>

SrgbCam ==
    <<<<srgbToXyzMatrix[1][1], srgbToXyzMatrix[2][1], srgbToXyzMatrix[3][1]>>,
      <<srgbToXyzMatrix[1][2], srgbToXyzMatrix[2][2], srgbToXyzMatrix[3][2]>>,
      <<srgbToXyzMatrix[1][3], srgbToXyzMatrix[2][3], srgbToXyzMatrix[3][3]>>,
      <<srgbToXyzMatrix[1][2], srgbToXyzMatrix[2][2], srgbToXyzMatrix[3][2]>>>>

ZeroCam == <<<<0, 0, 0>>, <<0, 0, 0>>, <<0, 0, 0>>, <<0, 0, 0>>>>

SrgbPrinted ==
    <<srgbToXyzMatrix[1], srgbToXyzMatrix[2], srgbToXyzMatrix[3], <<0, 0, 0>>>>

CamMatrices == {IdentityCam, SrgbCam, ZeroCam, SrgbPrinted}

\* multipliers -1, 0 and k / 2, 1 <= k <= MaxMulHalves
MaxMulHalves == 4

MulValues == {-FxOne, 0} \cup {k * (FxOne \div 2) : k \in 1..MaxMulHalves}

\* (R, G1, B, G2) with G2 equal to G1 or 0
CamMuls ==
    {m \in MulValues \X MulValues \X MulValues \X MulValues :
        m[4] = m[2] \/ m[4] = 0}

\* kelvin holds the arguments cam_mul and cam_xyz
InitWhitePoint ==
    /\ kelvin \in [cam_mul : CamMuls, cam_xyz : CamMatrices]
    /\ xy = None /\ tfn = None /\ tres = None
    /\ GainsIdle

CallEstimateWhitePointXY ==
    /\ tfn = None
    /\ TempCall("estimateWhitePointXYFromCamMulAndMatrix",
                estimateWhitePointXYFromCamMulAndMatrix(kelvin.cam_mul,
                                                        kelvin.cam_xyz))

CallEstimateFromMultipliers ==
    /\ tfn = None
    /\ TempCall("estimateFromMultipliers",
                estimateFromMultipliers(kelvin.cam_mul[1], kelvin.cam_mul[2],
                                        kelvin.cam_mul[3]))

CallGetAsShotDuvOfCamera ==
    /\ tfn = None
    /\ LET m == getCameraToXyzMatrix(kelvin.cam_xyz)
       IN  TempCall("getAsShotDuv",
                    IF m.ok
                    THEN [ok |-> TRUE,
                          value |-> getAsShotDuv(m.M, kelvin.cam_mul),
                          divisors |-> AsShotDivisors(kelvin.cam_mul)]
                    ELSE [ok |-> FALSE, value |-> None, divisors |-> <<>>])

CallGetAsShotCct ==
    /\ tfn = None
    /\ LET m == getCameraToXyzMatrix(kelvin.cam_xyz)
       IN  TempCall("getAsShotCct",
                    IF m.ok
                    THEN [ok |-> TRUE,
                          value |-> getAsShotCct(m.M, kelvin.cam_mul),
                          divisors |-> AsShotDivisors(kelvin.cam_mul)]
                    ELSE [ok |-> FALSE, value |-> None, divisors |-> <<>>])

NextWhitePoint ==
    \/ CallEstimateWhitePointXY
    \/ CallEstimateFromMultipliers
    \/ CallGetAsShotDuvOfCamera
    \/ CallGetAsShotCct

SpecWhitePoint == InitWhitePoint /\ [][NextWhitePoint]_vars

Estimated == tfn = "estimateWhitePointXYFromCamMulAndMatrix"

Near(c, d) == Abs(c[1] - d[1]) <= DuvTol /\ Abs(c[2] - d[2]) <= DuvTol

EqualEnergy == <<FxOne \div 3, FxOne \div 3>>

\* C15: with the identity matrix and four equal positive multipliers the
\* estimator returns (1/3, 1/3), computed and not taken from the locus.
C15_IdentityEqualEnergy ==
    (/\ Estimated
     /\ kelvin.cam_xyz = IdentityCam
     /\ kelvin.cam_mul[1] > 0
     /\ \A i \in 2..4 : kelvin.cam_mul[i] = kelvin.cam_mul[1])
    => (tres.path = "computed" /\ Near(tres.xy, EqualEnergy))

C15_Witness ==
    /\ Estimated
    /\ kelvin.cam_xyz = IdentityCam
    /\ kelvin.cam_mul = <<FxOne, FxOne, FxOne, FxOne>>
    /\ tres.path = "computed"
    /\ Near(tres.xy, EqualEnergy)

EndToEndInput ==
    /\ kelvin.cam_mul = <<2 * FxOne, FxOne, 3 * (FxOne \div 2), FxOne>>
    /\ kelvin.cam_xyz = SrgbCam

\* C16: for the multipliers (2, 1, 1.5, 1) and the sRGB-to-XYZ map as camera
\* matrix the returned white point has a CCT in [2500, 7500] and |Duv| < 0.05.
C16_EndToEnd ==
    (Estimated /\ EndToEndInput) =>
        /\ xyToKelvinAt(tres.xy) >= 2500 * KelvinOne
        /\ xyToKelvinAt(tres.xy) <= 7500 * KelvinOne
        /\ Abs(calculateDuv(tres.xy)) < Fx(5, 100)

\* the scenario returns the computed point, near 6973 K
C16_Witness ==
    /\ Estimated /\ EndToEndInput
    /\ tres.path = "computed"
    /\ xyToKelvinAt(tres.xy) > 6900 * KelvinOne
    /\ xyToKelvinAt(tres.xy) < 7000 * KelvinOne

\* C17: for an all-zero matrix the estimator's result can be told apart from
\* a successful estimate: it is not the chromaticity the estimator returns
\* for the identity matrix and the multipliers (1, 1, 1, 1).
C17_ZeroMatrixDistinct ==
    (Estimated /\ kelvin.cam_xyz = ZeroCam) =>
        ~Near(tres.xy,
              estimateWhitePointXYFromCamMulAndMatrix(
                  <<FxOne, FxOne, FxOne, FxOne>>, IdentityCam).xy)

MultiplierFunctions ==
    {"estimateWhitePointXYFromCamMulAndMatrix", "estimateFromMultipliers",
     "getAsShotDuv", "getAsShotCct"}

\* C18: every function that consumes the multipliers divides only by
\* positive numbers made from them.
C18_PositiveDivisors ==
    tfn \in MultiplierFunctions =>
        \A i \in DOMAIN tres.divisors : tres.divisors[i] > 0

\* C19: when the computed chromaticity fails the sanity check the estimator
\* returns kelvinToXY(xyToKelvin(xy)).
C19_FallbackSameCct ==
    (Estimated /\ tres.path = "locus") =>
        tres.xy = kelvinToXYAt(xyToKelvinAt(tres.computed))


\* the range of x and of y that isValidWhitePoint accepts
InPlausibleRange(c) ==
    /\ Fx(2, 10) <= c[1] /\ c[1] <= Fx(5, 10)
    /\ Fx(2, 10) <= c[2] /\ c[2] <= Fx(5, 10)

\* C30: every chromaticity estimateWhitePointXYFromCamMulAndMatrix returns,
\* whatever the multipliers and the matrix and whichever path returns it,
\* has 0.2 <= x <= 0.5 and 0.2 <= y <= 0.5.
C30_ReturnedInRange == Estimated => InPlausibleRange(tres.xy)

\* the D65 path and the path of the computed point return a point in range
ComputedInRange ==
    (Estimated /\ tres.path # "locus") => InPlausibleRange(tres.xy)

-----------------------------------------------------------------------------
(* One image shared by estimators and applications called in any order.     *)
(* image holds the samples lying in the caller's buffer; gop, garg, gstatus *)
(* and gains describe the estimator call that returned last; applied lists  *)
(* the applications made so far, out is the cv::Mat the last one returned   *)
(* (the buffer it lies in and its samples), aimpl names that application.   *)

\* cv::split with every plane a header onto the samples of its source
splitAsViews(img) ==
    [c \in 1..3 |-> [buffer |-> "input", data |-> Channel(img, c)]]

\* cv::split(image, channels) on an empty std::vector<cv::Mat>: every plane
\* is created with a buffer of its own and the samples are copied into it
split(img) ==
    [c \in 1..3 |-> [buffer |-> "fresh", data |-> Channel(img, c)]]

\* cv::multiply(channels[c], cv::Scalar(gain), channels[c]): source and
\* destination are the same plane, the products are written where it lies
multiplyInPlace(plane, gain) ==
    [plane EXCEPT !.data = [i \in DOMAIN plane.data |->
                               RMul(plane.data[i], gain)]]

\* the planes of wb::applyGains after its three multiplications
GainedPlanes(img, g) ==
    LET channels == split(img)
    IN  <<multiplyInPlace(channels[1], g.blue_gain),
          multiplyInPlace(channels[2], g.green_gain),
          multiplyInPlace(channels[3], g.red_gain)>>

\* the samples in the buffer of applyGains' input once it has returned: a
\* plane lying in that buffer has left its products there
InputAfterApplyGains(img, g) ==
    LET channels == GainedPlanes(img, g)
    IN  Mat(img.rows, img.cols,
            [i \in 1..NPix(img) |->
                [c \in 1..3 |-> IF channels[c].buffer = "input"
                                THEN channels[c].data[i]
                                ELSE img.pix[i][c]]])

\* cv::Mat result; cv::merge(channels, result); return result: the planes
\* are copied into a buffer created for result
ApplyGainsReturns(img, g) ==
    LET channels == GainedPlanes(img, g)
    IN  [buffer |-> "fresh",
         mat |-> Mat(img.rows, img.cols,
                     [i \in 1..NPix(img) |->
                         [c \in 1..3 |-> channels[c].data[i]]])]

\* cmsDoTransform on one pixel: LittleCMS is a library outside the
\* repository; a transform between matrix profiles on float samples acts on
\* the three samples of a pixel as a 3 x 3 matrix
cmsDoTransform(transform, px) ==
    [c \in 1..3 |-> RAdd(RAdd(RMul(transform[c][1], px[1]),
                              RMul(transform[c][2], px[2])),
                         RMul(transform[c][3], px[3]))]

\* applyWhitePointTransform (raw_wb_whitepoint.cpp): cv::Mat
\* output(input.size(), CV_32FC3) is a buffer of its own; the whole image at
\* once or row by row, every pixel of input is read and the transformed
\* pixel written to output
applyWhitePointTransform(input, transform) ==
    [buffer |-> "fresh",
     mat |-> Mat(input.rows, input.cols,
                 [i \in 1..NPix(input) |->
                     cmsDoTransform(transform, input.pix[i])])]

\* the samples in the buffer of applyWhitePointTransform's input once it
\* has returned: cmsDoTransform writes to output alone
InputAfterTransform(input, transform) ==
    LET output == applyWhitePointTransform(input, transform)
    IN  IF output.buffer = "input" THEN output.mat ELSE input

\* the images shared
SharedImages ==
    {SpotImage(2, 2, Gray, Cast, 1), SpotImage(3, 3, White, Cast, 9),
     SpotImage(1, 2, WeakRed, Black, 2), SpotImage(3, 2, Cast, ShadowEdge, 1)}

\* the p handed to computeSimpleWB on the shared image
SharedPercentiles == {RInt(0), Rat(1, 2)}

\* the gain triple applied to the shared image
SharedGains == {Gains(RInt(2), RInt(1), Rat(1, 2))}

\* the transform applied to the shared image: it mixes the samples of a
\* pixel
SharedTransforms ==
    {<<<<Rat(1, 2), Rat(1, 2), RInt(0)>>,
       <<RInt(0), RInt(1), RInt(0)>>,
       <<Rat(1, 4), RInt(0), Rat(3, 4)>>>>}

InitShared ==
    /\ image \in SharedImages
    /\ cfg \in Configs
    /\ gop = None /\ garg = None /\ gstatus = "idle" /\ gains = None
    /\ applied = <<>> /\ out = None
    /\ aimpl = None
    /\ TempIdle

\* an estimator returned: it holds const cv::Mat &image and writes to the
\* matrices it creates itself (the planes of cv::split, max_channel,
\* min_channel, the masks, the std::vector it sorts), never through image
SharedReturned(op, p, oob, g) ==
    /\ gop' = op
    /\ garg' = [p |-> p, oob |-> oob, seen |-> Len(applied)]
    /\ gstatus' = "ok" /\ gains' = g
    /\ image' = image
    /\ UNCHANGED <<cfg, applied, out, aimpl>>
    /\ UNCHANGED tempVars

\* an estimator entered its patch scan and never leaves it
SharedHung(op) ==
    /\ gop' = op
    /\ garg' = [p |-> None, oob |-> None, seen |-> Len(applied)]
    /\ gstatus' = "hung" /\ gains' = None
    /\ image' = image
    /\ UNCHANGED <<cfg, applied, out, aimpl>>
    /\ UNCHANGED tempVars

SharedGrayWorld ==
    /\ gstatus # "hung"
    /\ SharedReturned("computeGrayWorld", None, None,
                      computeGrayWorld(image, cfg))

SharedWhitePoint ==
    /\ gstatus # "hung"
    /\ \E oob \in (IF WhitePointReadsBeyond(NPix(image), cfg)
                   THEN OobValues ELSE {None}) :
         SharedReturned("computeWhitePoint", None, oob,
                        computeWhitePoint(image, cfg, oob))

SharedSimpleWB ==
    /\ gstatus # "hung"
    /\ \E p \in SharedPercentiles :
         \E oob \in (IF SimpleWBReadsBeyond(NPix(image), p)
                     THEN OobValues ELSE {None}) :
           SharedReturned("computeSimpleWB", p, oob,
                          computeSimpleWB(image, p, oob))

SharedPerfectReflector ==
    /\ gstatus # "hung"
    /\ IF PatchScanHangs(image, cfg)
       THEN SharedHung("computePerfectReflector")
       ELSE SharedReturned("computePerfectReflector", None, None,
                           computePerfectReflector(image, cfg))

SharedCombined ==
    /\ gstatus # "hung"
    /\ IF PatchScanHangs(image, cfg)
       THEN SharedHung("computeCombined")
       ELSE \E oob \in (IF WhitePointReadsBeyond(NPix(image), cfg)
                        THEN OobValues ELSE {None}) :
              SharedReturned("computeCombined", None, oob,
                             computeCombined(image, cfg, oob))

\* cv::Mat balanced = wb::applyGains(image, g) on the shared image
SharedApplyGains ==
    /\ gstatus # "hung" /\ Len(applied) < MaxApply
    /\ \E g \in SharedGains :
         /\ out' = ApplyGainsReturns(image, g)
         /\ image' = InputAfterApplyGains(image, g)
         /\ applied' = Append(applied, g)
    /\ aimpl' = "applyGains"
    /\ UNCHANGED <<cfg, gop, garg, gstatus, gains>>
    /\ UNCHANGED tempVars

\* cv::Mat adapted = applyWhitePointTransform(image, transform) on the
\* shared image
SharedApplyTransform ==
    /\ gstatus # "hung" /\ Len(applied) < MaxApply
    /\ \E transform \in SharedTransforms :
         /\ out' = applyWhitePointTransform(image, transform)
         /\ image' = InputAfterTransform(image, transform)
         /\ applied' = Append(applied, transform)
    /\ aimpl' = "applyWhitePointTransform"
    /\ UNCHANGED <<cfg, gop, garg, gstatus, gains>>
    /\ UNCHANGED tempVars

NextShared ==
    \/ SharedGrayWorld
    \/ SharedWhitePoint
    \/ SharedSimpleWB
    \/ SharedPerfectReflector
    \/ SharedCombined
    \/ SharedApplyGains
    \/ SharedApplyTransform

SpecShared == InitShared /\ [][NextShared]_vars

\* what the estimator op returns for img when nothing else is called; oob
\* is the value its read beyond the sample array met, where it makes one
RunAlone(op, arg, img, config) ==
    CASE op = "computeGrayWorld" -> computeGrayWorld(img, config)
      [] op = "computeWhitePoint" -> computeWhitePoint(img, config, arg.oob)
      [] op = "computeSimpleWB" -> computeSimpleWB(img, arg.p, arg.oob)
      [] op = "computePerfectReflector" -> computePerfectReflector(img, config)
      [] op = "computeCombined" -> computeCombined(img, config, arg.oob)

\* an application returned in this step
Applying == applied' # applied

-----------------------------------------------------------------------------
(* Gains from a temperature and a tint (wb_gains.h), in IEEE 754 arithmetic  *)
(* over the exact rationals: a value is a rational, +inf, -inf or NaN.       *)

IsNaN(a) == a = NaN
IsInf(a) == a = PosInf \/ a = NegInf

\* the sign of a value that is not NaN
Sign754(a) == Sgn(a[1])

SignedInf(s) == IF s < 0 THEN NegInf ELSE PosInf

\* a + b
Add754(a, b) ==
    IF IsNaN(a) \/ IsNaN(b) THEN NaN
    ELSE IF IsInf(a) THEN (IF IsInf(b) /\ b # a THEN NaN ELSE a)
    ELSE IF IsInf(b) THEN b
    ELSE RAdd(a, b)

\* a * b
Mul754(a, b) ==
    IF IsNaN(a) \/ IsNaN(b) THEN NaN
    ELSE IF IsInf(a) \/ IsInf(b)
         THEN (IF Sign754(a) * Sign754(b) = 0 THEN NaN
               ELSE SignedInf(Sign754(a) * Sign754(b)))
    ELSE RMul(a, b)

\* a / b; the sign of a zero is not kept
Quot754(a, b) ==
    IF IsNaN(a) \/ IsNaN(b) THEN NaN
    ELSE IF IsInf(a)
         THEN (IF IsInf(b) THEN NaN
               ELSE SignedInf(Sign754(a) * (IF Sign754(b) < 0 THEN -1 ELSE 1)))
    ELSE IF IsInf(b) THEN RInt(0)
    ELSE Div754(a, b)

\* std::abs(a)
Abs754(a) == IF IsNaN(a) THEN NaN ELSE IF IsInf(a) THEN PosInf ELSE RAbs(a)

\* std::exp(z): +inf once z passes ln(DBL_MAX) = 709.78, 0 below the
\* logarithm of the least double, and otherwise 1 + z + z^2/2 + z^3/6, which
\* is within 4e-4 of e^z for the |z| <= 3/10 of the tints tried
Exp754(z) ==
    IF IsNaN(z) THEN NaN
    ELSE IF z = PosInf THEN PosInf
    ELSE IF z = NegInf THEN RInt(0)
    ELSE IF RGt(z, Rat(70978, 100)) THEN PosInf
    ELSE IF RLt(z, RInt(-745)) THEN RInt(0)
    ELSE RAdd(RAdd(RAdd(RInt(1), z), RDiv(RMul(z, z), RInt(2))),
              RDiv(RMul(z, RMul(z, z)), RInt(6)))

\* WhiteBalanceGains::normalizeAverage (wb_gains.h)
normalizeAverage(g) ==
    LET avg == Quot754(Add754(Add754(g.red_gain, g.green_gain), g.blue_gain),
                       RInt(3))
    IN  IF Lt754(Nano, avg)
        THEN Gains(Quot754(g.red_gain, avg), Quot754(g.green_gain, avg),
                   Quot754(g.blue_gain, avg))
        ELSE g

\* the triple of gainsFromKelvinTint before the tint for the clamped kelvin
KelvinGains(K) ==
    IF Lt754(K, RInt(6500))
    THEN LET factor == Quot754(Add754(RInt(6500), RNeg(K)), RInt(4500))
         IN  Gains(Add754(RInt(1), RNeg(Mul754(factor, Rat(4, 10)))),
                   RInt(1),
                   Add754(RInt(1), Mul754(factor, Rat(5, 10))))
    ELSE LET factor == Quot754(Add754(K, RInt(-6500)), RInt(5500))
         IN  Gains(Add754(RInt(1), Mul754(factor, Rat(5, 10))),
                   RInt(1),
                   Add754(RInt(1), RNeg(Mul754(factor, Rat(4, 10)))))

\* the tint adjustment of gainsFromKelvinTint: the branches for tint > 0
\* and for tint <= 0 hold the same three statements
TintGains(g, tint) ==
    IF Lt754(Micro, Abs754(tint))
    THEN LET tint_factor == Quot754(tint, RInt(100))
         IN  Gains(Mul754(g.red_gain,
                          Add754(RInt(1), Mul754(tint_factor, Rat(5, 100)))),
                   Mul754(g.green_gain,
                          Exp754(Mul754(tint_factor, Rat(-2, 10)))),
                   Mul754(g.blue_gain,
                          Add754(RInt(1), Mul754(tint_factor, Rat(5, 100)))))
    ELSE g

\* wb::gainsFromKelvinTint (wb_gains.h)
gainsFromKelvinTint(K, tint) ==
    LET clamped == StdMax(RInt(2000), StdMin(RInt(12000), K))
    IN  normalizeAverage(TintGains(KelvinGains(clamped), tint))

-----------------------------------------------------------------------------
(* Inputs outside their range: kelvin holds the temperature (in K) and the  *)
(* tint handed to kelvinToXY and gainsFromKelvinTint, image the image       *)
(* handed to computeSimpleWB and garg the p handed with it.                 *)

\* temperatures below, on and above the ends of [1000, 25000], and around
\* 1667 K, where the fitted range of kelvinToXY begins
OutKelvins ==
    {-273, 0, 500, 999, 1000, 1500, 1666, 1667, 25000, 25001, 30000, 100000}

OutTints == {RInt(-50), RInt(0), RInt(50)}

\* percentages below, on, between and above the ends of [0, 100]
OutPercentiles == {RInt(-50), RInt(-1), RInt(0), Rat(1, 2), RInt(75),
                   RInt(100), RInt(101), RInt(150)}

\* the default configuration with white_percentile on and between the ends
\* of [0, 1]
OutConfigs ==
    {[DefaultConfig EXCEPT !.white_percentile = w] :
        w \in {RInt(0), Hundredth(95), RInt(1)}}

OutImages == {SpotImage(2, 2, Gray, Cast, 1), SpotImage(1, 3, White, Cast, 3)}

InitOutOfRange ==
    /\ kelvin \in [kelvin : OutKelvins, tint : OutTints]
    /\ xy = None /\ tfn = None /\ tres = None
    /\ image \in OutImages
    /\ cfg \in OutConfigs
    /\ gop = None /\ garg = None /\ gstatus = "idle" /\ gains = None
    /\ applied = <<>> /\ out = None
    /\ aimpl = None

OutKelvinToXY ==
    /\ tfn = None
    /\ TempCall("kelvinToXY", kelvinToXYAt(kelvin.kelvin * KelvinOne))

OutGainsFromKelvinTint ==
    /\ tfn = None
    /\ TempCall("gainsFromKelvinTint",
                gainsFromKelvinTint(RInt(kelvin.kelvin), kelvin.tint))

OutSimpleWB ==
    /\ gstatus = "idle"
    /\ \E p \in OutPercentiles :
         IF ~SimpleWBAccepts(p)
         THEN NoReturn("computeSimpleWB", [p |-> p, oob |-> None], "threw")
         ELSE \E oob \in (IF SimpleWBReadsBeyond(NPix(image), p)
                          THEN OobValues ELSE {None}) :
                Returned("computeSimpleWB", [p |-> p, oob |-> oob],
                         computeSimpleWB(image, p, oob))

OutWhitePoint ==
    /\ gstatus = "idle"
    /\ \E oob \in (IF WhitePointReadsBeyond(NPix(image), cfg)
                   THEN OobValues ELSE {None}) :
         Returned("computeWhitePoint", [oob |-> oob],
                  computeWhitePoint(image, cfg, oob))

NextOutOfRange ==
    \/ OutKelvinToXY
    \/ OutGainsFromKelvinTint
    \/ OutSimpleWB
    \/ OutWhitePoint

SpecOutOfRange == InitOutOfRange /\ [][NextOutOfRange]_vars

\* the value of [lo, hi] nearest to v
NearestKelvin(K) == IClamp(K, 1000, 25000)
NearestPercentile(p) == RMax(RInt(0), RMin(RInt(100), p))

\* C21: a kelvin outside [1000, 25000] gives kelvinToXY and
\* gainsFromKelvinTint the result of the nearest end of the range, and a p
\* outside [0, 100] gives computeSimpleWB the result of the nearest end of
\* that range; no call ends in a failed assertion.
C21_ClampedNeverAborts ==
    /\ tfn = "kelvinToXY" =>
           tres = kelvinToXYAt(NearestKelvin(kelvin.kelvin) * KelvinOne)
    /\ tfn = "gainsFromKelvinTint" =>
           tres = gainsFromKelvinTint(RInt(NearestKelvin(kelvin.kelvin)),
                                      kelvin.tint)
    /\ gop = "computeSimpleWB" =>
           /\ gstatus = "ok"
           /\ \E oob \in OobValues \cup {None} :
                gains = computeSimpleWB(image, NearestPercentile(garg.p), oob)

\* the two temperature functions alone do what C21 asks of them
KelvinClamped ==
    /\ tfn = "kelvinToXY" =>
           tres = kelvinToXYAt(NearestKelvin(kelvin.kelvin) * KelvinOne)
    /\ tfn = "gainsFromKelvinTint" =>
           tres = gainsFromKelvinTint(RInt(NearestKelvin(kelvin.kelvin)),
                                      kelvin.tint)

\* C25: for every kelvin below 1667, clamped to at least 1000, kelvinToXY
\* returns the chromaticity of kelvinToXY(1667): the function has no jump at
\* 1667 K.
C25_EndPointBelow1667 ==
    (tfn = "kelvinToXY" /\ kelvin.kelvin < 1667) =>
        tres = kelvinToXYAt(1667 * KelvinOne)

\* an index into a std::vector of n elements is one of 0 .. n - 1
IndexInside(idx, n) == 0 <= idx /\ idx <= n - 1

\* C26: for every non-empty image, every p in [0, 100] that computeSimpleWB
\* accepts and every white_percentile in [0, 1] of computeWhitePoint, the
\* indices low_idx, high_idx and percentile_idx lie in 0 .. n - 1 for the
\* sample count n, and low_idx <= high_idx.
C26_IndicesInside ==
    /\ (gop = "computeSimpleWB" /\ gstatus = "ok") =>
          /\ IndexInside(LowIdx(NPix(image), garg.p), NPix(image))
          /\ IndexInside(HighIdx(NPix(image), garg.p), NPix(image))
          /\ LowIdx(NPix(image), garg.p) <= HighIdx(NPix(image), garg.p)
    /\ gop = "computeWhitePoint" =>
          IndexInside(WhitePercentileIdx(NPix(image), cfg), NPix(image))

\* the indices of computeSimpleWB are inside and ordered for p = 0.5, those
\* of computeWhitePoint for white_percentile < 1
IndicesInsideDefaults ==
    /\ (gop = "computeSimpleWB" /\ gstatus = "ok" /\ garg.p = Rat(1, 2)) =>
          /\ IndexInside(LowIdx(NPix(image), garg.p), NPix(image))
          /\ IndexInside(HighIdx(NPix(image), garg.p), NPix(image))
          /\ LowIdx(NPix(image), garg.p) <= HighIdx(NPix(image), garg.p)
    /\ (gop = "computeWhitePoint" /\ RLt(cfg.white_percentile, RInt(1))) =>
          IndexInside(WhitePercentileIdx(NPix(image), cfg), NPix(image))

-----------------------------------------------------------------------------
(* gainsFromKelvinTint over temperatures and tints: kelvin holds the two    *)
(* arguments.                                                               *)

TintKelvins ==
    {500, 1000, 2000, 3500, 4250, 5000, 6500, 9250, 12000, 30000}

\* tints of a slider, one below the 1e-6 under which the tint is skipped,
\* and one whose exponential leaves the doubles
SliderTints ==
    {RInt(-150), RInt(-100), RInt(-50), RInt(-25), RInt(0),
     Rat(1, 10000000), RInt(25), RInt(50), RInt(100), RInt(150)}

Tints754 == SliderTints \cup {RInt(-400000)}

InitKelvinTint ==
    /\ kelvin \in [kelvin : TintKelvins, tint : Tints754]
    /\ xy = None /\ tfn = None /\ tres = None
    /\ GainsIdle

CallGainsFromKelvinTint ==
    /\ tfn = None
    /\ TempCall("gainsFromKelvinTint",
                gainsFromKelvinTint(RInt(kelvin.kelvin), kelvin.tint))

NextKelvinTint == CallGainsFromKelvinTint

SpecKelvinTint == InitKelvinTint /\ [][NextKelvinTint]_vars

\* (red_gain + green_gain + blue_gain) / 3
MeanGain(g) ==
    Quot754(Add754(Add754(g.red_gain, g.green_gain), g.blue_gain), RInt(3))

\* C23: the triple gainsFromKelvinTint returns has mean 1, for every kelvin
\* and every tint.
C23_MeanOne ==
    tfn = "gainsFromKelvinTint" => MeanGain(tres) = RInt(1)

\* the same for the tints of a slider
SliderMeanOne ==
    (tfn = "gainsFromKelvinTint" /\ kelvin.tint \in SliderTints) =>
        MeanGain(tres) = RInt(1)

\* ------------------------------------------------------------------------
\* WhitePointProcessor::process (raw_wb_whitepoint.cpp), one LibRaw or
\* OpenCV call per step
\* ------------------------------------------------------------------------

\* WhiteBalanceConfig::Mode
Modes == {"CAMERA_WB", "AUTO_WB", "MANUAL_KELVIN", "MANUAL_XY", "NEUTRAL_PICK"}

\* the two white balance switches of LibRaw's params
Flags == [use_camera_wb : {0, 1}, use_auto_wb : {0, 1}]

\* loadRawFile leaves the switches as the LibRaw constructor set them
keepParams(params) == params

\* loadRawFile's assignments to the two switches
configureParams(params) ==
    [params EXCEPT !.use_camera_wb = 0, !.use_auto_wb = 0]

\* which estimate getSourceWhitePoint returns for a mode
getSourceWhitePoint(mode) ==
    IF mode \in {"CAMERA_WB", "AUTO_WB"}
    THEN "estimateWhitePointFromCoefficients"
    ELSE "kelvinToXY(ILLUMINANT_D65)"

\* which point getTargetWhitePoint returns for a mode
getTargetWhitePoint(mode) ==
    CASE mode = "MANUAL_KELVIN" -> "applyDuvToKelvin"
      [] mode = "MANUAL_XY" -> "target_xy"
      [] OTHER -> "kelvinToXY(ILLUMINANT_D65)"

\* a WhitePointProcessor after construction: the mode is the caller's, the
\* switches are whatever LibRaw's constructor left
InitProcess ==
    /\ GainsIdle
    /\ xy = None
    /\ kelvin \in [mode : Modes]
    /\ tfn = "process"
    /\ \E p \in Flags :
         tres = [params |-> p, done |-> <<>>, source |-> None,
                 target |-> None, atRender |-> None, failed |-> None,
                 ret |-> None]

\* the call `step` is made at position `at` and control moves to `to`
ProcessStep(at, step, to, res) ==
    /\ tfn = at
    /\ TempCall(to, [res EXCEPT !.done = Append(tres.done, step)])

\* the call `step` fails and process returns false
ProcessFails(at, step) ==
    ProcessStep(at, step, "returned",
                [tres EXCEPT !.failed = step, !.ret = FALSE])

OpenFile ==
    \/ ProcessStep("process", "open_file", "opened", tres)
    \/ ProcessFails("process", "open_file")

SetParams ==
    ProcessStep("opened", "params", "configured",
                [tres EXCEPT !.params = configureParams(tres.params)])

Unpack ==
    \/ ProcessStep("configured", "unpack", "loaded", tres)
    \/ ProcessFails("configured", "unpack")

SourceWhitePoint ==
    ProcessStep("loaded", "getSourceWhitePoint", "sourced",
                [tres EXCEPT !.source = getSourceWhitePoint(kelvin.mode)])

TargetWhitePoint ==
    ProcessStep("sourced", "getTargetWhitePoint", "targeted",
                [tres EXCEPT !.target = getTargetWhitePoint(kelvin.mode)])

\* dcraw_process renders with the switches as they are at the call
DcrawProcess ==
    \/ ProcessStep("targeted", "dcraw_process", "rendered",
                   [tres EXCEPT !.atRender = tres.params])
    \/ ProcessStep("targeted", "dcraw_process", "returned",
                   [tres EXCEPT !.atRender = tres.params,
                                !.failed = "dcraw_process", !.ret = FALSE])

MakeMemImage ==
    \/ ProcessStep("rendered", "dcraw_make_mem_image", "inMemory", tres)
    \/ ProcessFails("rendered", "dcraw_make_mem_image")

\* the colors/bits test and the conversion to CV_32FC3; an empty matrix
\* makes process return false
ConvertLinear ==
    \/ ProcessStep("inMemory", "convertTo", "linear", tres)
    \/ ProcessFails("inMemory", "convertTo")

Adapt ==
    ProcessStep("linear", "applyWhitePointTransform", "adapted", tres)

GammaEncoding ==
    ProcessStep("adapted", "applyGammaEncoding", "encoded", tres)

SaveOutput ==
    \/ ProcessStep("encoded", "saveOutput", "returned",
                   [tres EXCEPT !.ret = TRUE])
    \/ ProcessFails("encoded", "saveOutput")

NextProcess ==
    \/ OpenFile
    \/ SetParams
    \/ Unpack
    \/ SourceWhitePoint
    \/ TargetWhitePoint
    \/ DcrawProcess
    \/ MakeMemImage
    \/ ConvertLinear
    \/ Adapt
    \/ GammaEncoding
    \/ SaveOutput

SpecProcess == InitProcess /\ [][NextProcess]_vars

\* the calls made so far, as a set
Done == {tres.done[i] : i \in DOMAIN tres.done}

\* the position of a call among the calls made so far (0: not made)
Position(step) ==
    IF step \in Done
    THEN CHOOSE i \in DOMAIN tres.done : tres.done[i] = step
    ELSE 0

\* the calls that load the file or produce the linear image
LoadOrLinear ==
    {"open_file", "unpack", "dcraw_process", "dcraw_make_mem_image",
     "convertTo"}

\* the calls that adapt, encode and save
AfterLinear == {"applyWhitePointTransform", "applyGammaEncoding", "saveOutput"}

\* C24: in every run of process, for every mode, dcraw_process is called
\* only after getSourceWhitePoint, which is called only after unpack; both
\* use_camera_wb and use_auto_wb are 0 when dcraw_process runs; and when a
\* call that loads the file or produces the linear image fails, process has
\* returned false with no adaptation, encoding or saving call made.
C24_NoDoubleWhiteBalance ==
    /\ "getSourceWhitePoint" \in Done =>
         /\ Position("unpack") > 0
         /\ Position("unpack") < Position("getSourceWhitePoint")
    /\ "dcraw_process" \in Done =>
         /\ Position("getSourceWhitePoint") > 0
         /\ Position("getSourceWhitePoint") < Position("dcraw_process")
         /\ tres.atRender = [use_camera_wb |-> 0, use_auto_wb |-> 0]
    /\ tres.failed \in LoadOrLinear =>
         /\ tfn = "returned"
         /\ tres.ret = FALSE
         /\ Done \cap AfterLinear = {}

C24_Witness ==
    /\ tfn = "returned"
    /\ tres.failed = "dcraw_make_mem_image"
    /\ kelvin.mode = "CAMERA_WB"
    /\ tres.source = "estimateWhitePointFromCoefficients"
    /\ tres.atRender = [use_camera_wb |-> 0, use_auto_wb |-> 0]

-----------------------------------------------------------------------------
(* The patch scan of computePerfectReflector (wb_algorithms.h), one loop     *)
(* test per step: image holds rows and cols, cfg the patch_size, tfn the     *)
(* position in the two loops and tres the loop variables and the patches     *)
(* scanned so far.                                                           *)

MaxScanSide == 5     \* the scanned images have 1..MaxScanSide rows and columns
MaxPatchSize == 3    \* patch_size is one of 1..MaxPatchSize

InitScan ==
    /\ image \in [rows : 1..MaxScanSide, cols : 1..MaxScanSide]
    /\ cfg \in [patch_size : 1..MaxPatchSize]
    /\ gop = None /\ garg = None /\ gstatus = "idle" /\ gains = None
    /\ applied = <<>> /\ out = None /\ aimpl = None
    /\ xy = None /\ kelvin = None
    /\ tfn = "outer"
    /\ tres = [x |-> 0, y |-> 0, patches |-> {}]

\* the increment of both loops
Stride(config) == config.patch_size \div 2

\* cv::Rect roi(x, y, min(patch_size, cols - x), min(patch_size, rows - y))
Roi(img, config, x, y) ==
    [x |-> x, y |-> y,
     width |-> IMin(config.patch_size, img.cols - x),
     height |-> IMin(config.patch_size, img.rows - y)]

\* y < rows - patch_size holds: the inner loop starts at x = 0
EnterRow ==
    /\ tfn = "outer"
    /\ tres.y < image.rows - cfg.patch_size
    /\ TempCall("inner", [tres EXCEPT !.x = 0])

\* y < rows - patch_size fails: the scan is over
LeaveScan ==
    /\ tfn = "outer"
    /\ ~(tres.y < image.rows - cfg.patch_size)
    /\ TempCall("done", tres)

\* x < cols - patch_size holds: the patch at (x, y) is scanned, x += stride
ScanPatch ==
    /\ tfn = "inner"
    /\ tres.x < image.cols - cfg.patch_size
    /\ TempCall("inner",
                [tres EXCEPT !.patches = @ \cup {Roi(image, cfg, tres.x, tres.y)},
                             !.x = @ + Stride(cfg)])

\* x < cols - patch_size fails: y += stride
LeaveRow ==
    /\ tfn = "inner"
    /\ ~(tres.x < image.cols - cfg.patch_size)
    /\ TempCall("outer", [tres EXCEPT !.y = @ + Stride(cfg)])

NextScan == EnterRow \/ LeaveScan \/ ScanPatch \/ LeaveRow

SpecScan == InitScan /\ [][NextScan]_vars

\* the loops keep running while they can
SpecScanFair == SpecScan /\ WF_vars(NextScan)

\* C27: computePerfectReflector terminates for every image and every
\* patch_size >= 1: the two loops of the patch scan finish.
C27_ScanTerminates == <>(tfn = "done")

\* with patch_size >= 2 the scan finishes
ScanTerminatesFrom2 == (cfg.patch_size >= 2) => <>(tfn = "done")

\* the pixel (px, py) lies in a scanned patch
Covered(px, py) ==
    \E r \in tres.patches :
        /\ r.x <= px /\ px < r.x + r.width
        /\ r.y <= py /\ py < r.y + r.height

\* C28: for every image with more rows and more columns than patch_size,
\* every pixel lies in at least one patch of the finished scan, the last rows
\* and the last columns included.
C28_ScanCoversImage ==
    (/\ tfn = "done"
     /\ image.rows > cfg.patch_size
     /\ image.cols > cfg.patch_size) =>
        \A px \in 0..(image.cols - 1), py \in 0..(image.rows - 1) :
            Covered(px, py)

\* the finished scan covers every pixel left of and above the last
\* patch_size columns and rows
ScanCoversInterior ==
    tfn = "done" =>
        \A px \in 0..(image.cols - cfg.patch_size - 1),
           py \in 0..(image.rows - cfg.patch_size - 1) :
            Covered(px, py)

-----------------------------------------------------------------------------
(* Offsetting a locus point by a Duv and measuring the Duv of the result:    *)
(* kelvin holds the temperature (in K) and the duv handed to                 *)
(* applyTintToKelvin, on the grid of 1e-8.                                   *)

\* ColorTemp::uvToXY on fixed-point coordinates; ChromaticityXY() is D65
uvToXYAt(uv) ==
    LET denom == 2 * uv[1] - 8 * uv[2] + 4 * FxOne
    IN  IF Abs(denom) < Fx(1, 1000000) THEN <<Fx(3127, 10000), Fx(3290, 10000)>>
        ELSE <<FDiv(3 * uv[1], denom), FDiv(2 * uv[2], denom)>>

\* ColorTemp::applyTintToKelvin for a temperature of Tk * 1e-4 K
applyTintToKelvinAt(Tk, duv) ==
    LET base == kelvinToXYAt(Tk)
        uv == xyToUVAt(base)
        next == xyToUVAt(kelvinToXYAt(Tk + 10 * KelvinOne))
        du == next[1] - uv[1]
        dv == next[2] - uv[2]
        mag == Hypot(du, dv)
    IN  IF Abs(duv) < Fx(1, 1000000) THEN base
        ELSE IF mag < Fx(1, 1000000) THEN base
        ELSE uvToXYAt(<<uv[1] + FMul(FDiv(-dv, mag), duv),
                        uv[2] + FMul(FDiv(du, mag), duv)>>)

\* temperatures of [1000, 25000], both ends included
DuvKelvins ==
    {1000, 1500, 1667, 2000, 3000, 4000, 5000, 6500, 10000, 20000, 25000}

\* non-zero offsets up to 0.05 on either side
DuvOffsets ==
    {Fx(s * m, 1000) : s \in {-1, 1}, m \in {5, 10, 20, 50}}

InitOffset ==
    /\ kelvin \in [kelvin : DuvKelvins, duv : DuvOffsets]
    /\ xy = None /\ tfn = None /\ tres = None
    /\ GainsIdle

OffsetByDuv ==
    /\ tfn = None
    /\ TempCall("applyTintToKelvin",
                applyTintToKelvinAt(kelvin.kelvin * KelvinOne, kelvin.duv))

\* calculateDuv of the point applyTintToKelvin returned
MeasureOffsetPoint ==
    /\ tfn = "applyTintToKelvin"
    /\ TempCall("calculateDuv", [point |-> tres, duv |-> calculateDuv(tres)])

NextOffset == OffsetByDuv \/ MeasureOffsetPoint

SpecOffset == InitOffset /\ [][NextOffset]_vars

\* the (u, v) distance between two chromaticities
UvDistance(a, b) ==
    Hypot(xyToUVAt(a)[1] - xyToUVAt(b)[1], xyToUVAt(a)[2] - xyToUVAt(b)[2])

\* what the fixed-point arithmetic leaves of a distance of up to 0.05
DuvTolerance == Fx(1, 10000)

\* C29: for every kelvin in [1000, 25000] and every duv with
\* 0 < |duv| <= 0.05, the point applyTintToKelvin returns lies at (u, v)
\* distance |duv| from kelvinToXY(kelvin), and calculateDuv of that point has
\* the sign of duv: no non-zero duv is dropped.
C29_ApplyMeasureAgree ==
    /\ tfn = "applyTintToKelvin" =>
          Abs(UvDistance(tres, kelvinToXYAt(kelvin.kelvin * KelvinOne))
              - Abs(kelvin.duv)) <= DuvTolerance
    /\ tfn = "calculateDuv" => Sgn(tres.duv) = Sgn(kelvin.duv)

\* between 1667 K and 20000 K the point lies at distance |duv| from the locus
\* point
OffsetDistanceKept ==
    (/\ tfn = "applyTintToKelvin"
     /\ kelvin.kelvin >= 1667 /\ kelvin.kelvin <= 20000) =>
          Abs(UvDistance(tres, kelvinToXYAt(kelvin.kelvin * KelvinOne))
              - Abs(kelvin.duv)) <= DuvTolerance

\* between 1667 K and 6500 K calculateDuv of the point has the sign opposite
\* to duv's
OffsetSignOpposite ==
    (/\ tfn = "calculateDuv"
     /\ kelvin.kelvin >= 1667 /\ kelvin.kelvin <= 6500) =>
          Sgn(tres.duv) = -Sgn(kelvin.duv)

\* at 1000 K, 1500 K and 25000 K the locus point comes back unchanged
OffsetDropped ==
    (/\ tfn = "applyTintToKelvin"
     /\ kelvin.kelvin \in {1000, 1500, 25000}) =>
          tres = kelvinToXYAt(kelvin.kelvin * KelvinOne)

=============================================================================
